---- MODULE Spec2Model ----
(***************************************************************************)
(* Dispute decision and idempotent case creation of the dispute resolution *)
(* service: DisputeDecisionAgent (crew_ai_app/agents/                      *)
(* dispute_decision_agent.py) over the Cases table of DynamoDBClient       *)
(* (crew_ai_app/db/dynamo_client.py), and the two tools that reach the     *)
(* store beside it: DisputeCaseCreationTool and DynamoQueryCreatorTool     *)
(* (mcp/tools/dynamo_query_tool.py); the crew that routes requests to them *)
(* (crew_ai_app/crew.py); and, beside the store, the MCP client tool       *)
(* (mcp/tools/mcp_client_tool.py) with its server, the document upload     *)
(* endpoint (mcp/main.py) and the LogManager (mcp/log_manager.py).         *)
(*                                                                         *)
(* Encodings.  Time is counted in ticks, TicksPerDay ticks to a day, so    *)
(* that timedelta.days (a floor) is visible.  Amounts are counted in       *)
(* 1/AmountUnit of a dollar.  A Python value that is a number, a string    *)
(* holding a number, None, or a missing dict key is a record               *)
(* [type, v]; a string-valued field holds "None" for None and "<missing>"  *)
(* for a key that is not in the dict.                                      *)
(***************************************************************************)
EXTENDS Integers, Sequences, FiniteSets, TLC

VARIABLES cases, now, last, inv, tool, store_call, crew, mcp, upload, singleton, log_manager

vars == <<cases, now, last, inv, tool, store_call, crew, mcp, upload, singleton, log_manager>>

(* ------------------------------ bounds -------------------------------- *)

TicksPerDay == 2
AmountUnit == 100
MaxNow == 1
MaxCases == 3
MaxToolCases == 1
MaxRequests == 4
MaxDocuments == 3
MaxLogs == 2
MaxEntries == 3

(* ------------------------- program constants -------------------------- *)

TIME_BARRED_DAYS == 600
AUTO_RESOLVE_AMOUNT_USD == 100
SENTINEL_AMOUNT_USD == 999999

STATUS_REJECTED_TIME_BARRED == "REJECTED_TIME_BARRED"
STATUS_RESOLVED_CUSTOMER == "RESOLVED_CUSTOMER"
STATUS_FORWARDED_TO_ACQUIRER == "FORWARDED_TO_ACQUIRER"
CREDIT_TYPE_PERMANENT == "PERMANENT"
CREDIT_TYPE_TEMPORARY == "TEMPORARY"

closed_statuses ==
    {"RESOLVED_CUSTOMER", "RESOLVED_ACQUIRER", "CLOSED", "REJECTED_TIME_BARRED"}

(* --------------------------- Python values ---------------------------- *)

None == "None"
Missing == "<missing>"

PyNone == [type |-> "None", v |-> 0]
PyMissing == [type |-> "missing", v |-> 0]
PyFloat(c) == [type |-> "float", v |-> c]
PyInt(c) == [type |-> "int", v |-> c]
PyDecimal(c) == [type |-> "Decimal", v |-> c]
\* a string that float() parses once '$' and ',' are removed, of value c
PyNumStr(c) == [type |-> "str", v |-> c]
\* a string that float() rejects
PyBadStr == [type |-> "badstr", v |-> 0]

Usd(d) == d * AmountUnit
Days(d) == d * TicksPerDay

\* dict.get(key) and dict.get(key, default) on a string-valued key
Get(s) == IF s = Missing THEN None ELSE s
GetOr(s, default) == IF s = Missing THEN default ELSE s

\* transaction_date values: an ISO-8601 string of wall-clock tick t, a string
\* datetime.fromisoformat rejects, None, or no such key
IsoDate(t) == [kind |-> "iso", t |-> t]
BadDate == [kind |-> "bad", t |-> 0]
NoneDate == [kind |-> "None", t |-> 0]
MissingDate == [kind |-> "missing", t |-> 0]
\* the default '' of transaction_data.get('date', '')
EmptyDate == [kind |-> "bad", t |-> 0]

(* ------------------------- the decision engine ------------------------ *)

calculate_transaction_age_days_fail_old(transaction_date, clock) ==
    IF transaction_date.kind = "iso"
    THEN (clock - transaction_date.t) \div TicksPerDay
    ELSE TIME_BARRED_DAYS + 1

\* _calculate_transaction_age_days: (utcnow - txn_date).days, 0 when the
\* date does not parse.  utcnow() is given the transaction's tzinfo, so the
\* subtraction is one of wall-clock readings.
calculate_transaction_age_days(transaction_date, clock) ==
    IF transaction_date.kind = "iso"
    THEN (clock - transaction_date.t) \div TicksPerDay
    ELSE 0

amount_fields == <<"amount_usd", "amount", "transaction_amount", "value">>

\* the loop of _extract_amount_usd from field number i on
RECURSIVE extract_from(_, _)
extract_from(transaction_data, i) ==
    IF i > Len(amount_fields) THEN Usd(SENTINEL_AMOUNT_USD)
    ELSE LET amount == transaction_data[amount_fields[i]] IN
         CASE amount.type = "missing" -> extract_from(transaction_data, i + 1)
           [] amount.type = "str" -> amount.v
           [] amount.type = "badstr" -> Usd(SENTINEL_AMOUNT_USD)
           [] amount.type \in {"int", "float", "Decimal"} -> amount.v
           [] OTHER -> extract_from(transaction_data, i + 1)

extract_amount_usd_default_zero(transaction_data) ==
    IF \A i \in 1..Len(amount_fields) :
           transaction_data[amount_fields[i]].type = "missing"
    THEN 0
    ELSE extract_from(transaction_data, 1)

extract_amount_usd(transaction_data) == extract_from(transaction_data, 1)

\* transaction_data.get('transaction_date', transaction_data.get('date', ''))
date_of(transaction_data) ==
    IF transaction_data.transaction_date.kind # "missing"
    THEN transaction_data.transaction_date
    ELSE IF transaction_data.date.kind # "missing"
         THEN transaction_data.date
         ELSE EmptyDate

Decision(status, reason, credit_type, credit_amount) ==
    [status |-> status, reason |-> reason,
     credit_type |-> credit_type, credit_amount |-> credit_amount]

Reason(text, n) == [text |-> text, n |-> n]

determine_case_status_amount_first(transaction_data, clock) ==
    LET amount_usd == extract_amount_usd(transaction_data)
        age_days == calculate_transaction_age_days(date_of(transaction_data), clock)
    IN  IF amount_usd <= Usd(AUTO_RESOLVE_AMOUNT_USD)
        THEN Decision(STATUS_RESOLVED_CUSTOMER, Reason("small_amount", amount_usd),
                      CREDIT_TYPE_PERMANENT, PyFloat(amount_usd))
        ELSE IF age_days > TIME_BARRED_DAYS
        THEN Decision(STATUS_REJECTED_TIME_BARRED, Reason("time_barred", age_days),
                      None, PyNone)
        ELSE Decision(STATUS_FORWARDED_TO_ACQUIRER, Reason("forwarded", amount_usd),
                      CREDIT_TYPE_TEMPORARY, PyFloat(amount_usd))

determine_case_status_strict_amount(transaction_data, clock) ==
    LET amount_usd == extract_amount_usd(transaction_data)
        age_days == calculate_transaction_age_days(date_of(transaction_data), clock)
    IN  IF age_days > TIME_BARRED_DAYS
        THEN Decision(STATUS_REJECTED_TIME_BARRED, Reason("time_barred", age_days),
                      None, PyNone)
        ELSE IF amount_usd < Usd(AUTO_RESOLVE_AMOUNT_USD)
        THEN Decision(STATUS_RESOLVED_CUSTOMER, Reason("small_amount", amount_usd),
                      CREDIT_TYPE_PERMANENT, PyFloat(amount_usd))
        ELSE Decision(STATUS_FORWARDED_TO_ACQUIRER, Reason("forwarded", amount_usd),
                      CREDIT_TYPE_TEMPORARY, PyFloat(amount_usd))

determine_case_status_partial(transaction_data, clock) ==
    LET amount_usd == extract_amount_usd(transaction_data)
        age_days == calculate_transaction_age_days(date_of(transaction_data), clock)
    IN  IF date_of(transaction_data).kind # "iso"
           \/ amount_usd = Usd(SENTINEL_AMOUNT_USD)
        THEN Decision(None, Reason(None, 0), None, PyNone)
        ELSE IF age_days > TIME_BARRED_DAYS
        THEN Decision(STATUS_REJECTED_TIME_BARRED, Reason("time_barred", age_days),
                      None, PyNone)
        ELSE IF amount_usd <= Usd(AUTO_RESOLVE_AMOUNT_USD)
        THEN Decision(STATUS_RESOLVED_CUSTOMER, Reason("small_amount", amount_usd),
                      CREDIT_TYPE_PERMANENT, PyFloat(amount_usd))
        ELSE Decision(STATUS_FORWARDED_TO_ACQUIRER, Reason("forwarded", amount_usd),
                      CREDIT_TYPE_TEMPORARY, PyFloat(amount_usd))

\* _determine_case_status: the rules in their order of precedence
determine_case_status(transaction_data, clock) ==
    LET amount_usd == extract_amount_usd(transaction_data)
        age_days == calculate_transaction_age_days(date_of(transaction_data), clock)
    IN  IF age_days > TIME_BARRED_DAYS
        THEN Decision(STATUS_REJECTED_TIME_BARRED, Reason("time_barred", age_days),
                      None, PyNone)
        ELSE IF age_days <= TIME_BARRED_DAYS /\ amount_usd <= Usd(AUTO_RESOLVE_AMOUNT_USD)
        THEN Decision(STATUS_RESOLVED_CUSTOMER, Reason("small_amount", amount_usd),
                      CREDIT_TYPE_PERMANENT, PyFloat(amount_usd))
        ELSE Decision(STATUS_FORWARDED_TO_ACQUIRER, Reason("forwarded", amount_usd),
                      CREDIT_TYPE_TEMPORARY, PyFloat(amount_usd))

(* --------------------------- transactions ----------------------------- *)

\* a transaction_data dict
Tx(id, transaction_date, date, amount_usd, amount, transaction_amount, value) ==
    [transaction_id |-> id, customer_id |-> "CUST001",
     card_id |-> Missing, merchant |-> Missing,
     transaction_date |-> transaction_date, date |-> date,
     amount_usd |-> amount_usd, amount |-> amount,
     transaction_amount |-> transaction_amount, value |-> value]

NoTx == Tx(Missing, MissingDate, MissingDate, PyMissing, PyMissing,
           PyMissing, PyMissing)

\* case_id None of a result; cases[i].case_id = i stands for the i-th uuid4
NoneId == 0

build_case_data_no_review(transaction_data, decision, case_id, clock) ==
    [case_id |-> case_id,
     customer_id |-> Get(transaction_data.customer_id),
     card_id |-> Get(transaction_data.card_id),
     transaction_id |-> Get(transaction_data.transaction_id),
     transaction_date |->
        IF transaction_data.transaction_date.kind # "missing"
        THEN transaction_data.transaction_date
        ELSE IF transaction_data.date.kind # "missing"
             THEN transaction_data.date ELSE NoneDate,
     transaction_amount |-> PyFloat(extract_amount_usd(transaction_data)),
     merchant |-> GetOr(transaction_data.merchant, "Unknown"),
     dispute_status |-> decision.status,
     decision_reason |-> decision.reason,
     auto_decided |-> TRUE,
     requires_manual_review |-> FALSE,
     credit_type |-> decision.credit_type,
     credit_amount |-> decision.credit_amount,
     credit_issued |-> decision.credit_type # None,
     created_at |-> clock,
     updated_at |-> clock]

\* the case_data dict of process_dispute, with the three entries
\* DisputeCaseCreationTool._run adds
build_case_data(transaction_data, decision, case_id, clock) ==
    [case_id |-> case_id,
     customer_id |-> Get(transaction_data.customer_id),
     card_id |-> Get(transaction_data.card_id),
     transaction_id |-> Get(transaction_data.transaction_id),
     transaction_date |->
        IF transaction_data.transaction_date.kind # "missing"
        THEN transaction_data.transaction_date
        ELSE IF transaction_data.date.kind # "missing"
             THEN transaction_data.date ELSE NoneDate,
     transaction_amount |-> PyFloat(extract_amount_usd(transaction_data)),
     merchant |-> GetOr(transaction_data.merchant, "Unknown"),
     dispute_status |-> decision.status,
     decision_reason |-> decision.reason,
     auto_decided |-> TRUE,
     requires_manual_review |-> decision.status = STATUS_FORWARDED_TO_ACQUIRER,
     credit_type |-> decision.credit_type,
     credit_amount |-> decision.credit_amount,
     credit_issued |-> decision.credit_type # None,
     created_at |-> clock,
     updated_at |-> clock]

NoDecision == Decision(None, Reason(None, 0), None, PyNone)

\* None where a case dict is expected
NoCase == build_case_data(NoTx, NoDecision, NoneId, 0)

(* ----------------------------- the store ------------------------------ *)

convert_value_truncating(x) ==
    IF x.type = "float"
    THEN PyDecimal((x.v \div AmountUnit) * AmountUnit)
    ELSE x

\* convert_floats_to_decimal on one value: Decimal(str(x)) for a float,
\* the decimal number str(x) writes the float as
convert_value(x) == IF x.type = "float" THEN PyDecimal(x.v) ELSE x

\* convert_floats_to_decimal on a case dict: its float-valued entries
convert_floats_to_decimal(case_data) ==
    [case_data EXCEPT !.transaction_amount = convert_value(@),
                      !.credit_amount = convert_value(@)]

\* create_case: put_item of the converted dict; False when the store raises
create_case(table, case_data, store_ok) ==
    IF store_ok
    THEN [ok |-> TRUE, table |-> Append(table, convert_floats_to_decimal(case_data))]
    ELSE [ok |-> FALSE, table |-> table]

\* get_case, when the store answers: the item of the case_id as it is
\* stored, None when there is none
get_case(table, case_id) ==
    IF case_id \in 1..Len(table) THEN table[case_id] ELSE NoCase

\* the items of the TransactionIndex partition of transaction_id (the index
\* is read as of the last write; an item whose transaction_id is None is in
\* no partition a caller can name)
TransactionIndex(table, transaction_id) ==
    {i \in 1..Len(table) : table[i].transaction_id = transaction_id}

\* The index has a HASH key only (initialize_db.py), so ScanIndexForward
\* orders nothing: any item of the partition can come first.
first_items(table, transaction_id) ==
    IF TransactionIndex(table, transaction_id) = {}
    THEN {NoneId}
    ELSE TransactionIndex(table, transaction_id)

\* get_case_by_transaction: items[0] of the query (the item of id pick),
\* None when there is no item or when the store raises (the error is caught)
get_case_by_transaction(table, transaction_id, lookup_ok, pick) ==
    IF lookup_ok /\ pick # NoneId THEN table[pick] ELSE NoCase

\* get_open_case_for_transaction
get_open_case_for_transaction(table, transaction_id, lookup_ok, pick) ==
    LET case == get_case_by_transaction(table, transaction_id, lookup_ok, pick)
    IN  IF case = NoCase THEN NoCase
        ELSE IF case.dispute_status \notin closed_statuses THEN case
        ELSE NoCase

\* the dict of field updates given to update_case; Missing, MissingDate
\* and PyMissing: no such key.  A created_at or updated_at is the ISO
\* string of a tick, a case_id PyInt(n) the n-th uuid4.
FieldUpdates(status, credit_type, credit_amount, transaction_id, customer_id, created_at, updated_at, case_id) ==
    [dispute_status |-> status, credit_type |-> credit_type,
     credit_amount |-> credit_amount, transaction_id |-> transaction_id,
     customer_id |-> customer_id, created_at |-> created_at,
     updated_at |-> updated_at, case_id |-> case_id]

\* a dict of updates of the decision fields only
Updates(status, credit_type, credit_amount) ==
    FieldUpdates(status, credit_type, credit_amount, Missing, Missing,
                 MissingDate, MissingDate, PyMissing)

\* the SET expression built from the dict, "#k = :k" for each of its keys
\* and then "#updated_at = :updated_at", is one the store executes: it
\* assigns no key attribute of the table, and no path twice
update_expression_accepted(updates) ==
    updates.case_id = PyMissing /\ updates.updated_at = MissingDate

\* the item after the SET: every given field has the given value, except
\* updated_at, whose value :updated_at is the time of the call
set_fields(case, updates, clock) ==
    [case EXCEPT !.dispute_status = GetOr(updates.dispute_status, @),
                 !.credit_type = GetOr(updates.credit_type, @),
                 !.credit_amount =
                     IF updates.credit_amount.type = "missing" THEN @
                     ELSE updates.credit_amount,
                 !.transaction_id = GetOr(updates.transaction_id, @),
                 !.customer_id = GetOr(updates.customer_id, @),
                 !.created_at =
                     IF updates.created_at.kind = "missing" THEN @
                     ELSE updates.created_at.t,
                 !.updated_at = clock]

\* convert_floats_to_decimal on a dict of updates
convert_updates(updates) ==
    [updates EXCEPT !.credit_amount = convert_value(@)]

\* update_case: SET every given field, and updated_at; the table is left
\* as it is when the store raises
update_case(table, case_id, updates, clock, store_ok) ==
    IF store_ok /\ update_expression_accepted(updates)
    THEN [table EXCEPT ![case_id] = set_fields(@, convert_updates(updates), clock)]
    ELSE table

\* what update_case returns: False when the store raised
update_case_result(updates, store_ok) ==
    store_ok /\ update_expression_accepted(updates)

(* ---------------------------- the workflow ---------------------------- *)

\* a returned dict: keys names the keys it has
NoResult ==
    [keys |-> {}, case_id |-> NoneId, customer_id |-> None, card_id |-> None,
     transaction_id |-> None, dispute_status |-> None,
     decision_reason |-> Reason(None, 0), created_at |-> 0, updated_at |-> 0,
     auto_decided |-> FALSE, requires_manual_review |-> FALSE,
     existing_case |-> FALSE, credit_type |-> None, credit_amount |-> PyNone,
     credit_issued |-> FALSE, success |-> FALSE, message |-> None]

\* the dict returned when an open case was found
existing_result(case) ==
    [NoResult EXCEPT
       !.keys = {"case_id", "customer_id", "card_id", "transaction_id",
                 "dispute_status", "decision_reason", "created_at", "updated_at",
                 "auto_decided", "requires_manual_review", "existing_case",
                 "message"},
       !.case_id = case.case_id, !.customer_id = case.customer_id,
       !.card_id = case.card_id, !.transaction_id = case.transaction_id,
       !.dispute_status = case.dispute_status,
       !.decision_reason = case.decision_reason,
       !.created_at = case.created_at, !.updated_at = case.updated_at,
       !.auto_decided = case.auto_decided,
       !.requires_manual_review = case.requires_manual_review,
       !.existing_case = TRUE,
       !.message = "An open dispute case already exists for this transaction"]

\* the dict returned after a successful create_case
created_result(case_data, decision) ==
    [NoResult EXCEPT
       !.keys = {"case_id", "customer_id", "card_id", "transaction_id",
                 "dispute_status", "decision_reason", "created_at", "updated_at",
                 "auto_decided", "requires_manual_review", "credit_type",
                 "credit_amount", "credit_issued", "existing_case"},
       !.case_id = case_data.case_id, !.customer_id = case_data.customer_id,
       !.card_id = case_data.card_id, !.transaction_id = case_data.transaction_id,
       !.dispute_status = decision.status, !.decision_reason = decision.reason,
       !.created_at = case_data.created_at, !.updated_at = case_data.updated_at,
       !.auto_decided = TRUE,
       !.requires_manual_review = decision.status = STATUS_FORWARDED_TO_ACQUIRER,
       !.credit_type = decision.credit_type,
       !.credit_amount = decision.credit_amount,
       !.credit_issued = decision.credit_type # None,
       !.existing_case = FALSE]

\* the dict returned when create_case returned False
failed_result ==
    [NoResult EXCEPT
       !.keys = {"case_id", "dispute_status", "decision_reason"},
       !.case_id = NoneId, !.dispute_status = "ERROR",
       !.decision_reason = Reason("Failed to create dispute case", 0)]

\* what one call of process_dispute did: its input, the id it looked up,
\* the decision it computed (decided), the put it attempted, its result
Call(transaction_data, clock, lookup_id, decided, decision, put, result) ==
    [op |-> "process_dispute", tx |-> transaction_data, at |-> clock,
     lookup_id |-> lookup_id, decided |-> decided, decision |-> decision,
     put |-> put, result |-> result]

\* process_dispute from the open-case check on: existing is what
\* get_open_case_for_transaction returned
process_dispute_after_lookup(table, transaction_data, clock, existing, store_ok) ==
    LET transaction_id == GetOr(transaction_data.transaction_id, "unknown") IN
    IF existing # NoCase
    THEN [table |-> table,
          call |-> Call(transaction_data, clock, transaction_id, FALSE, NoDecision,
                        FALSE, existing_result(existing))]
    ELSE LET decision == determine_case_status(transaction_data, clock)
             case_data == build_case_data(transaction_data, decision,
                                          Len(table) + 1, clock)
             created == create_case(table, case_data, store_ok)
         IN  [table |-> created.table,
              call |-> Call(transaction_data, clock, transaction_id, TRUE, decision,
                            TRUE,
                            IF created.ok THEN created_result(case_data, decision)
                            ELSE failed_result)]

\* process_dispute, as one uninterrupted call
process_dispute(table, transaction_data, clock, lookup_ok, pick, store_ok) ==
    process_dispute_after_lookup(
        table, transaction_data, clock,
        get_open_case_for_transaction(
            table, GetOr(transaction_data.transaction_id, "unknown"),
            lookup_ok, pick),
        store_ok)

\* verify_transaction of the crew once the verification agent has found
\* the transaction: the dict it wraps the result of process_dispute in
verify_transaction(transaction, dispute_result) ==
    [success |-> TRUE, transaction |-> transaction,
     dispute_case |-> dispute_result]

(* ------------------------------ the tools ----------------------------- *)

CARDS_TABLE == "ptr_dispute_resol_customer_cards_and_transactions"
CASE_TABLE == "ptr_dispute_resol_case_db"

valid_tables == {CARDS_TABLE, CASE_TABLE}

\* an entry of a key_condition dict, attr: value.  op is "eq" for a plain
\* value (n when it is a case_id, s otherwise), "begins_with" or "between"
\* for a dict value with that key, "other" for any other dict value
KeyEntry(attr, op, n, s) == [attr |-> attr, op |-> op, n |-> n, s |-> s]

\* a key_condition dict of one entry with a plain value; a dict is the
\* sequence of its entries in their order, NoKey is None or {}
KeyCondition(attr, n, s) == <<KeyEntry(attr, "eq", n, s)>>

NoKey == <<>>

\* a boto3 condition on a key attribute, Key(attr).eq(...) and the like; a
\* conjunction c1 & c2 is the set of its conditions, None the empty set
Condition(attr, op) == [attr |-> attr, op |-> op]

\* the loop of _execute_query over key_condition.items()
key_expression(key_condition) ==
    LET key_expr[i \in 0..Len(key_condition)] ==
            IF i = 0 THEN {}
            ELSE CASE key_condition[i].op \in {"begins_with", "between"} ->
                          {Condition(key_condition[i].attr, key_condition[i].op)}
                   [] key_condition[i].op = "eq" ->
                          key_expr[i - 1] \cup {Condition(key_condition[i].attr, "eq")}
                   [] OTHER -> key_expr[i - 1]
    IN  key_expr[Len(key_condition)]

\* the dict as it is passed for Key= by get_item and update_item
key_of(key_condition) ==
    {Condition(key_condition[i].attr, key_condition[i].op) :
        i \in 1..Len(key_condition)}

\* the entry of attr in the dict
entry_of(key_condition, attr) ==
    key_condition[CHOOSE i \in 1..Len(key_condition) : key_condition[i].attr = attr]

\* the hash key a query of the table, or of its index index_name, is
\* answered on; None when the table has no index of that name
hash_key(table_name, index_name) ==
    CASE index_name = None ->
             IF table_name = CASE_TABLE THEN "case_id" ELSE "customer_id"
      [] index_name = "TransactionIndex" -> "transaction_id"
      [] index_name = "CustomerIndex" /\ table_name = CASE_TABLE -> "customer_id"
      [] OTHER -> None

\* the sort key of the table; None when it has none, and for the indexes
range_key(table_name, index_name) ==
    IF table_name = CARDS_TABLE /\ index_name = None THEN "composite_key" ELSE None

\* the store executes a query whose key condition is an equality on the
\* hash key, alone or with one condition on the sort key
query_accepted(table_name, index_name, key_expr) ==
    /\ hash_key(table_name, index_name) # None
    /\ Condition(hash_key(table_name, index_name), "eq") \in key_expr
    /\ \A c \in key_expr :
          \/ c = Condition(hash_key(table_name, index_name), "eq")
          \/ c.attr = range_key(table_name, index_name)
    /\ \A c, d \in key_expr : c.attr = d.attr => c = d

\* the store takes a Key= that gives a plain value for every key attribute
\* of the table and for nothing else
key_accepted(table_name, key) ==
    key = {Condition(hash_key(table_name, None), "eq")}
            \cup (IF range_key(table_name, None) = None THEN {}
                  ELSE {Condition(range_key(table_name, None), "eq")})

\* the items initialize_db.py puts in the cards table: a card and its two
\* transactions
CardItem(composite_key, transaction_id, amount, transaction_date, merchant) ==
    [customer_id |-> "CUST001", composite_key |-> composite_key,
     card_number |-> "1234", transaction_id |-> transaction_id,
     amount |-> amount, transaction_date |-> transaction_date,
     merchant |-> merchant]

cards_table ==
    {CardItem("CARD#1234", Missing, PyMissing, MissingDate, Missing),
     CardItem("CARD#1234#TXN001", "TXN001", PyNumStr(Usd(99)), IsoDate(0 - Days(10)),
              "Netflix"),
     CardItem("CARD#1234#TXN002", "TXN002", PyNumStr(Usd(150)), IsoDate(0 - Days(10)),
              "Amazon")}

\* a request as the store receives it: the boto3 call on a table, with its
\* IndexName, the conditions of its key, and whether a float is among the
\* values it carries
Request(verb, table_name, index_name, key, floats) ==
    [verb |-> verb, table |-> table_name, index |-> index_name, key |-> key,
     floats |-> floats]

\* what one call of a tool did: the tool, its arguments, the requests it
\* sent to the store, and the success and error entries of its result
ToolCall(name, table_name, operation, key_condition, index_name, requests, success, error) ==
    [name |-> name, table_name |-> table_name, operation |-> operation,
     key_condition |-> key_condition, index_name |-> index_name,
     requests |-> requests, success |-> success, error |-> error]

NoToolCall == ToolCall(None, None, None, NoKey, None, <<>>, FALSE, None)

\* the arguments of DynamoQueryCreatorTool._run (filter_expression,
\* attributes_to_get and limit are passed on to the store as they are)
QueryArgs(table_name, operation, key_condition, index_name, item_data, update_expression) ==
    [table_name |-> table_name, operation |-> operation,
     key_condition |-> key_condition, index_name |-> index_name,
     item_data |-> item_data, update_expression |-> update_expression]

\* no update_expression: None or {}
NoUpdates ==
    FieldUpdates(Missing, Missing, PyMissing, Missing, Missing, MissingDate,
                 MissingDate, PyMissing)

\* what a call of the query tool leaves: the Cases table after it, and
\* the record of the call
Answer(table, args, requests, success, error) ==
    [table |-> table,
     call |-> ToolCall("dynamo_query_creator", args.table_name, args.operation,
                       args.key_condition, args.index_name, requests, success,
                       error)]

\* _execute_query: the key condition is built and the query is sent; the
\* store raises when it does not take the condition
execute_query(table, args, store_ok) ==
    IF args.key_condition = NoKey
    THEN Answer(table, args, <<>>, FALSE, "key_condition required for query")
    ELSE LET key_expr == key_expression(args.key_condition)
             request == Request("query", args.table_name, args.index_name,
                                key_expr, FALSE)
         IN  IF store_ok /\ query_accepted(args.table_name, args.index_name, key_expr)
             THEN Answer(table, args, <<request>>, TRUE, None)
             ELSE Answer(table, args, <<request>>, FALSE, "store")

\* the item of the key is in the table
item_found(table, table_name, key_condition) ==
    IF table_name = CASE_TABLE
    THEN entry_of(key_condition, "case_id").n \in 1..Len(table)
    ELSE \E item \in cards_table :
            /\ item.customer_id = entry_of(key_condition, "customer_id").s
            /\ item.composite_key = entry_of(key_condition, "composite_key").s

\* _execute_get_item
execute_get_item(table, args, store_ok) ==
    IF args.key_condition = NoKey
    THEN Answer(table, args, <<>>, FALSE, "key_condition required for get_item")
    ELSE LET request == Request("get_item", args.table_name, None,
                                key_of(args.key_condition), FALSE)
         IN  IF ~ (store_ok /\ key_accepted(args.table_name,
                                            key_of(args.key_condition)))
             THEN Answer(table, args, <<request>>, FALSE, "store")
             ELSE IF item_found(table, args.table_name, args.key_condition)
             THEN Answer(table, args, <<request>>, TRUE, None)
             ELSE Answer(table, args, <<request>>, FALSE, "Item not found")

\* _execute_scan
execute_scan(table, args, store_ok) ==
    Answer(table, args, <<Request("scan", args.table_name, None, {}, FALSE)>>,
           store_ok, IF store_ok THEN None ELSE "store")

\* _execute_put_item of a case dict: the item replaces the one of its
\* case_id or is added; the cards table rejects it for its missing sort key
execute_put_item(table, args, store_ok) ==
    IF args.item_data = NoCase
    THEN Answer(table, args, <<>>, FALSE, "item_data required for put_item")
    ELSE LET item == convert_floats_to_decimal(args.item_data)
             request == Request("put_item", args.table_name, None,
                                {Condition("case_id", "eq")},
                                "float" \in {item.transaction_amount.type,
                                             item.credit_amount.type})
         IN  IF ~ (store_ok /\ args.table_name = CASE_TABLE)
             THEN Answer(table, args, <<request>>, FALSE, "store")
             ELSE Answer(IF item.case_id \in 1..Len(table)
                         THEN [table EXCEPT ![item.case_id] = item]
                         ELSE Append(table, item),
                         args, <<request>>, TRUE, None)

\* _execute_update_item: SET of every entry of update_expression, as it
\* is, and of updated_at.  A float among the values is refused by the boto3
\* serializer; a key that is no case of the table has its item created.
execute_update_item(table, args, clock, store_ok) ==
    IF args.key_condition = NoKey
    THEN Answer(table, args, <<>>, FALSE, "key_condition required for update_item")
    ELSE IF args.update_expression = NoUpdates
    THEN Answer(table, args, <<>>, FALSE, "update_expression required for update_item")
    ELSE LET floats == args.update_expression.credit_amount.type = "float"
             request == Request("update_item", args.table_name, None,
                                key_of(args.key_condition), floats)
             case_id == entry_of(args.key_condition, "case_id").n
             old == IF case_id \in 1..Len(table) THEN table[case_id]
                    ELSE [NoCase EXCEPT !.case_id = case_id,
                                        !.customer_id = None,
                                        !.transaction_amount = PyNone,
                                        !.merchant = None,
                                        !.auto_decided = FALSE]
             new == set_fields(old, args.update_expression, clock)
         IN  IF floats
             THEN Answer(table, args, <<request>>, FALSE,
                         "Float types are not supported")
             ELSE IF ~ (/\ store_ok
                        /\ args.table_name = CASE_TABLE
                        /\ key_accepted(args.table_name, key_of(args.key_condition))
                        /\ update_expression_accepted(args.update_expression))
             THEN Answer(table, args, <<request>>, FALSE, "store")
             ELSE Answer(IF case_id \in 1..Len(table)
                         THEN [table EXCEPT ![case_id] = new]
                         ELSE Append(table, new),
                         args, <<request>>, TRUE, None)

\* DynamoQueryCreatorTool._run
query_tool_run(table, args, clock, store_ok) ==
    IF args.table_name \notin valid_tables
    THEN Answer(table, args, <<>>, FALSE, "Invalid table name")
    ELSE CASE args.operation = "query" -> execute_query(table, args, store_ok)
           [] args.operation = "get_item" -> execute_get_item(table, args, store_ok)
           [] args.operation = "scan" -> execute_scan(table, args, store_ok)
           [] args.operation = "put_item" -> execute_put_item(table, args, store_ok)
           [] args.operation = "update_item" ->
                  execute_update_item(table, args, clock, store_ok)
           [] OTHER -> Answer(table, args, <<>>, FALSE, "Unsupported operation")

\* DisputeCaseCreationTool._run: the dict is given a new case_id and the
\* time of the call, and is written with create_case
case_creation_tool_run(table, case_data, clock, store_ok) ==
    LET created == create_case(table,
                               [case_data EXCEPT !.case_id = Len(table) + 1,
                                                 !.created_at = clock,
                                                 !.updated_at = clock],
                               store_ok)
    IN  [table |-> created.table,
         call |-> ToolCall("dispute_case_creation", None, None, NoKey, None,
                           <<Request("put_item", CASE_TABLE, None,
                                     {Condition("case_id", "eq")}, FALSE)>>,
                           created.ok,
                           IF created.ok THEN None
                           ELSE "Failed to create case in database")]

(* ---------------------------- async_retry --------------------------- *)

\* max_attempts of the decorator on the methods of DynamoDBClient
max_attempts == 3

\* the methods of DynamoDBClient decorated with async_retry
retry_wrapped ==
    {"get_customer_cards", "get_card_transactions", "get_transaction", "get_case",
     "update_case"}

\* what the store does on one request: it answers, it raises a ClientError
\* of code ThrottlingException or ProvisionedThroughputExceededException, a
\* ClientError of another code, or another exception is raised
StoreOutcomes == {"ok", "throttled", "client_error", "exception"}

\* what an invocation of a method raises
Raised == {"throttled", "client_error", "exception"}

\* one call of a method of DynamoDBClient: its arguments, where it stands,
\* the invocations of the method made so far, what the store did and
\* what the method gave in each, the waits in units of delay, and what the
\* caller got
StoreCall(op, case_id, updates, case_data, pc, attempt, responses, outcomes, slept, result) ==
    [op |-> op, case_id |-> case_id, updates |-> updates, case_data |-> case_data,
     pc |-> pc, attempt |-> attempt, responses |-> responses,
     outcomes |-> outcomes, slept |-> slept, result |-> result]

NoStoreCall ==
    StoreCall(None, NoneId, NoUpdates, NoCase, "idle", 0, <<>>, <<>>, <<>>, None)

\* the call as the caller makes it
NewStoreCall(op, case_id, updates, case_data) ==
    StoreCall(op, case_id, updates, case_data, "running", 0, <<>>, <<>>, <<>>, None)

\* what one invocation of the method gives when the store does outcome:
\* create_case and update_case return False on any exception,
\* get_case_by_transaction returns None, the other methods raise it again
func_result(call, outcome) ==
    CASE call.op = "update_case" ->
             IF update_case_result(call.updates, outcome = "ok") THEN "True"
             ELSE "False"
      [] call.op = "create_case" -> IF outcome = "ok" THEN "True" ELSE "False"
      [] call.op = "get_case_by_transaction" ->
             IF outcome = "ok" THEN "value" ELSE "None"
      [] OTHER -> IF outcome = "ok" THEN "value" ELSE outcome

async_retry_attempt_early(call, r) ==
    LET last_attempt == call.attempt >= max_attempts - 2
        again == r = "exception" \/ r = "throttled"
    IN  [call EXCEPT
           !.attempt = @ + 1,
           !.outcomes = Append(@, r),
           !.pc = IF r \notin Raised THEN "returned"
                  ELSE IF again /\ ~ last_attempt THEN "running" ELSE "raised",
           !.slept = IF again /\ ~ last_attempt
                     THEN Append(@, IF r = "throttled" THEN 2 ^ call.attempt ELSE 1)
                     ELSE @,
           !.result = IF again /\ ~ last_attempt THEN None ELSE r]

\* one pass of the loop of the wrapper of async_retry, in which the
\* method gave r: the value is returned; a throttling ClientError is
\* waited out, delay * 2 ** attempt, and any other exception waited out,
\* delay, unless this was the last attempt; a ClientError of another code
\* is raised
async_retry_attempt(call, r) ==
    LET last_attempt == call.attempt = max_attempts - 1
        again == r = "exception" \/ r = "throttled"
    IN  [call EXCEPT
           !.attempt = @ + 1,
           !.outcomes = Append(@, r),
           !.pc = IF r \notin Raised THEN "returned"
                  ELSE IF again /\ ~ last_attempt THEN "running" ELSE "raised",
           !.slept = IF again /\ ~ last_attempt
                     THEN Append(@, IF r = "throttled" THEN 2 ^ call.attempt ELSE 1)
                     ELSE @,
           !.result = IF again /\ ~ last_attempt THEN None ELSE r]

\* a method that is not decorated is invoked once
direct_call(call, r) ==
    [call EXCEPT !.attempt = 1, !.outcomes = <<r>>,
                 !.pc = IF r \in Raised THEN "raised" ELSE "returned",
                 !.result = r]

\* the call after one more invocation of its method, in which the store
\* did outcome
invoke(call, outcome) ==
    LET made == IF call.op \in retry_wrapped
                THEN async_retry_attempt(call, func_result(call, outcome))
                ELSE direct_call(call, func_result(call, outcome))
    IN  [made EXCEPT !.responses = Append(@, outcome)]

(* ------------------------------ the crew ------------------------------ *)

\* the items of the TransactionIndex partition of transaction_id in the
\* cards table
transaction_items(transaction_id) ==
    {item \in cards_table : item.transaction_id = transaction_id}

\* no item: the query returned none
NoItem == CardItem(None, None, PyNone, NoneDate, None)

\* items[0] of the query: any item of the partition
first_transaction_items(transaction_id) ==
    IF transaction_items(transaction_id) = {} THEN {NoItem}
    ELSE transaction_items(transaction_id)

get_transaction_unchecked(transaction_id, customer_id, card_number, item) ==
    IF item = NoItem THEN NoTx
    ELSE [Tx(item.transaction_id, item.transaction_date, MissingDate, PyMissing,
             PyFloat(item.amount.v), PyMissing, PyMissing)
            EXCEPT !.customer_id = item.customer_id, !.merchant = item.merchant]

\* get_transaction, when the store answers: None when there is no item,
\* or when a customer_id or card_number is given and is not the item's;
\* else the dict made of the item, its amount as a float
get_transaction(transaction_id, customer_id, card_number, item) ==
    IF item = NoItem THEN NoTx
    ELSE IF customer_id # None /\ item.customer_id # customer_id THEN NoTx
    ELSE IF card_number # None /\ item.card_number # card_number THEN NoTx
    ELSE [Tx(item.transaction_id, item.transaction_date, MissingDate, PyMissing,
             PyFloat(item.amount.v), PyMissing, PyMissing)
            EXCEPT !.customer_id = item.customer_id, !.merchant = item.merchant]

\* TransactionLookupTool._run: the transaction, None when get_transaction
\* returned None or raised
transaction_lookup(transaction_id, customer_id, card_number, item, read_ok) ==
    IF read_ok THEN get_transaction(transaction_id, customer_id, card_number, item)
    ELSE NoTx

\* verify_transaction of the crew: the verification, and process_dispute
\* on the transaction found.  call is the last call of process_dispute.
crew_verify_transaction(table, call, transaction_id, customer_id, card_number, clock, item, read_ok, lookup_ok, pick, store_ok) ==
    LET transaction == transaction_lookup(transaction_id, customer_id, card_number,
                                          item, read_ok)
        done == process_dispute(table, transaction, clock, lookup_ok, pick, store_ok)
    IN  IF transaction = NoTx
        THEN [table |-> table, call |-> call, success |-> FALSE]
        ELSE [table |-> done.table, call |-> done.call,
              success |-> verify_transaction(transaction, done.call.result).success]

\* a piece of a request text: a word, or an id.  text is the piece in the
\* case it is stored in (a word and the hex of a uuid in lower case, a
\* customer or transaction id in upper case), n the case a uuid is the
\* case_id of, upper whether it is written in upper case, and run the
\* first run of 4 to 19 digits in it
Token(kind, text, n, upper, run) ==
    [kind |-> kind, text |-> text, n |-> n, upper |-> upper, run |-> run]

\* no match of a pattern
NoToken == Token(None, None, NoneId, FALSE, None)

Word(text) == Token("word", text, NoneId, FALSE, None)

\* str.lower() and str.upper() on a request and on a matched id
lower(request) == [i \in 1..Len(request) |-> [request[i] EXCEPT !.upper = FALSE]]

upper(token) == IF token = NoToken THEN NoToken ELSE [token EXCEPT !.upper = TRUE]

\* the id as the string a store lookup is made with: the stored id when
\* it is written in the case ids are stored in
text_of(token) ==
    IF token = NoToken THEN None
    ELSE IF token.upper = (token.kind # "uuid") THEN token.text
    ELSE "no such id"

\* the case a case_id is the id of
case_of(token) ==
    IF token.kind = "uuid" /\ ~ token.upper THEN token.n ELSE NoneId

\* keyword in request, for a request in lower case: a word of the
\* request has the keyword in it
contains(request, keyword) ==
    \E i \in 1..Len(request) :
        /\ request[i].kind = "word"
        /\ ~ request[i].upper
        /\ \/ request[i].text = keyword
           \/ request[i].text = "cases" /\ keyword = "case"

\* 'first second' in request: the two words, a blank between them
contains_phrase(request, first, second) ==
    \E i \in 1..(Len(request) - 1) :
        /\ request[i].kind = "word" /\ ~ request[i].upper
        /\ request[i].text = first
        /\ request[i + 1].kind = "word" /\ ~ request[i + 1].upper
        /\ request[i + 1].text = second

\* re.search of the pattern of an id: the first piece of that kind that
\* is in lower case
search(request, kind) ==
    IF \E i \in 1..Len(request) : request[i].kind = kind /\ ~ request[i].upper
    THEN request[CHOOSE i \in 1..Len(request) :
                    /\ request[i].kind = kind /\ ~ request[i].upper
                    /\ \A j \in 1..(i - 1) :
                          ~ (request[j].kind = kind /\ ~ request[j].upper)]
    ELSE NoToken

\* re.search(r'\d{4,19}', request_description)
search_digits(request) ==
    IF \E i \in 1..Len(request) : request[i].run # None
    THEN request[CHOOSE i \in 1..Len(request) :
                    /\ request[i].run # None
                    /\ \A j \in 1..(i - 1) : request[j].run = None].run
    ELSE None

route_dispute_first(request_lower, case_id, customer_id, transaction_id, card_number) ==
    IF /\ transaction_id # NoToken
       /\ contains(request_lower, "dispute") \/ contains(request_lower, "transaction")
    THEN "verify_transaction"
    ELSE IF /\ contains(request_lower, "case")
            /\ contains(request_lower, "status")
            /\ case_id # NoToken
    THEN "get_case_status"
    ELSE IF /\ \/ contains_phrase(request_lower, "my", "cases")
               \/ contains_phrase(request_lower, "customer", "cases")
               \/ contains(request_lower, "all") /\ contains(request_lower, "case")
            /\ customer_id # NoToken
    THEN "get_customer_cases"
    ELSE IF card_number # None /\ customer_id # NoToken
    THEN "verify_card"
    ELSE IF /\ customer_id # NoToken
            /\ \/ contains(request_lower, "verify")
               \/ contains(request_lower, "show")
               \/ contains(request_lower, "cards")
            /\ ~ contains(request_lower, "case")
    THEN "verify_customer"
    ELSE None

\* the if / elif chain of process_request: the method the request is
\* routed to, None when it is not understood
route(request_lower, case_id, customer_id, transaction_id, card_number) ==
    IF /\ contains(request_lower, "case")
       /\ contains(request_lower, "status")
       /\ case_id # NoToken
    THEN "get_case_status"
    ELSE IF /\ \/ contains_phrase(request_lower, "my", "cases")
               \/ contains_phrase(request_lower, "customer", "cases")
               \/ contains(request_lower, "all") /\ contains(request_lower, "case")
            /\ customer_id # NoToken
    THEN "get_customer_cases"
    ELSE IF /\ transaction_id # NoToken
            /\ contains(request_lower, "dispute") \/ contains(request_lower, "transaction")
    THEN "verify_transaction"
    ELSE IF card_number # None /\ customer_id # NoToken
    THEN "verify_card"
    ELSE IF /\ customer_id # NoToken
            /\ \/ contains(request_lower, "verify")
               \/ contains(request_lower, "show")
               \/ contains(request_lower, "cards")
            /\ ~ contains(request_lower, "case")
    THEN "verify_customer"
    ELSE None

\* what one call of the crew did: the method called, the request text of
\* process_request, the method it was routed to, the ids the method was
\* given, and the success entry of the result; for a listing of a
\* customer's cases, the case_ids of the list returned and whether the
\* store answered the query
CrewCall(op, request, routed, case_id, customer_id, transaction_id, card_number, success) ==
    [op |-> op, request |-> request, route |-> routed, case_id |-> case_id,
     customer_id |-> customer_id, transaction_id |-> transaction_id,
     card_number |-> card_number, success |-> success,
     cases |-> {}, list_ok |-> TRUE]

NoCrewCall == CrewCall(None, <<>>, None, NoToken, NoToken, NoToken, None, FALSE)

\* list_cases_by_customer: the items of the CustomerIndex partition of
\* customer_id, as the set of their case_ids (the index has no sort key,
\* and at most limit = 50 items are asked for); the empty list when the
\* query raised
list_cases_by_customer(table, customer_id, list_ok) ==
    IF list_ok
    THEN {table[i].case_id : i \in {j \in 1..Len(table) : table[j].customer_id = customer_id}}
    ELSE {}

\* CustomerCasesLookupTool._run and CaseQueryAgent.get_customer_cases: the
\* list of the client in a result that says success
customer_cases_lookup(table, customer_id, list_ok) ==
    [success |-> TRUE, cases |-> list_cases_by_customer(table, customer_id, list_ok)]

\* get_customer_cases of the crew: the cases entry of the agent's result
crew_get_customer_cases(table, customer_id, list_ok) ==
    customer_cases_lookup(table, customer_id, list_ok).cases

\* process_request: the ids are extracted, and the request is routed
process_request(table, call, request_description, clock, item, read_ok, lookup_ok, pick, store_ok) ==
    LET request_lower == lower(request_description)
        customer_id == upper(search(request_lower, "cust"))
        case_id == search(request_lower, "uuid")
        transaction_id == upper(search(request_lower, "txn"))
        card_number == search_digits(request_description)
        routed == route(request_lower, case_id, customer_id, transaction_id,
                        card_number)
        verified == crew_verify_transaction(table, call, text_of(transaction_id),
                                            text_of(customer_id), card_number, clock,
                                            item, read_ok, lookup_ok, pick, store_ok)
        crew_call(ids, success) ==
            CrewCall("process_request", request_description, routed, ids[1], ids[2],
                     ids[3], ids[4], success)
    IN  CASE routed = "get_case_status" ->
                 [table |-> table, call |-> call,
                  crew |-> crew_call(<<case_id, NoToken, NoToken, None>>,
                                     read_ok /\ case_of(case_id) \in 1..Len(table))]
          [] routed = "get_customer_cases" ->
                 [table |-> table, call |-> call,
                  crew |-> [crew_call(<<NoToken, customer_id, NoToken, None>>, TRUE)
                              EXCEPT !.cases = crew_get_customer_cases(
                                                   table, text_of(customer_id), read_ok),
                                     !.list_ok = read_ok]]
          [] routed = "verify_transaction" ->
                 [table |-> verified.table, call |-> verified.call,
                  crew |-> crew_call(<<NoToken, customer_id, transaction_id,
                                       card_number>>, verified.success)]
          [] routed = "verify_card" ->
                 [table |-> table, call |-> call,
                  crew |-> crew_call(<<NoToken, customer_id, NoToken, card_number>>,
                                     /\ read_ok
                                     /\ \E i \in cards_table :
                                           /\ i.customer_id = text_of(customer_id)
                                           /\ i.card_number = card_number)]
          [] routed = "verify_customer" ->
                 [table |-> table, call |-> call,
                  crew |-> crew_call(<<NoToken, customer_id, NoToken, None>>,
                                     /\ read_ok
                                     /\ \E i \in cards_table :
                                           i.customer_id = text_of(customer_id))]
          [] OTHER ->
                 [table |-> table, call |-> call,
                  crew |-> crew_call(<<NoToken, NoToken, NoToken, None>>, FALSE)]

(* --------------------------- the MCP client --------------------------- *)

\* a JSON-RPC request and a JSON-RPC response; error is the code of the
\* error entry, 0 when the response carries a result
JsonRpcRequest(id, method) == [id |-> id, method |-> method]

JsonRpcResponse(id, error) == [id |-> id, error |-> error]

NoRequest == JsonRpcRequest(0, None)

\* MCPServer.handle_request: the response carries the id of the request,
\* with a result, or with the error -32601 for a method that is not known
handle_request(request) ==
    IF request.method \in {"initialize", "tools/list", "tools/call"}
    THEN JsonRpcResponse(request.id, 0)
    ELSE JsonRpcResponse(request.id, -32601)

\* the MCPClientTool and its server: the counter of request ids, the two
\* pipes of the subprocess, the queue the reader thread fills, where the
\* caller of _send_request stands, its request, and what the last call
\* returned
Client(request_id_counter, stdin, stdout, output_queue, pc, request, response) ==
    [request_id_counter |-> request_id_counter, stdin |-> stdin, stdout |-> stdout,
     output_queue |-> output_queue, pc |-> pc, request |-> request,
     response |-> response]

\* the tool after __init__: the initialize request, of id 1, was answered
NewClient ==
    Client(1, <<>>, <<>>, <<>>, "idle", NoRequest, JsonRpcResponse(1, 0))

\* _send_request up to the wait: the next id is taken and the request is
\* written to the stdin of the server; when the write raises, the error
\* -32603 is returned
send_request(client, method, write_ok) ==
    LET request_id == client.request_id_counter + 1
        request == JsonRpcRequest(request_id, method)
    IN  IF write_ok
        THEN [client EXCEPT !.request_id_counter = request_id,
                            !.stdin = Append(@, request),
                            !.pc = "waiting", !.request = request]
        ELSE [client EXCEPT !.request_id_counter = request_id,
                            !.pc = "idle", !.request = request,
                            !.response = JsonRpcResponse(request_id, -32603)]

\* _send_request from the wait on: the first response of the queue is
\* returned; its id is compared with the id of the request for a warning
\* only
receive(client) ==
    [client EXCEPT !.output_queue = Tail(@), !.pc = "idle",
                   !.response = Head(client.output_queue)]

\* output_queue.get raised Empty after 30 seconds: the error -32000 with
\* the id of the request is returned
timeout(client) ==
    [client EXCEPT !.pc = "idle",
                   !.response = JsonRpcResponse(client.request.id, -32000)]

(* ------------------------- document uploads --------------------------- *)

\* the requests of upload_case_documents that may overlap
Uploaders == {"r1", "r2"}

\* an entry of the documents list: the file of a request, which
\* S3Client.upload_document stored under a key of its own
Document(request, filename) == [request |-> request, filename |-> filename]

\* a request of upload_case_documents: where it stands, its files, and the
\* documents entry of the case it read
UploadRequest(pc, files, existing_docs) ==
    [pc |-> pc, files |-> files, existing_docs |-> existing_docs]

\* the documents list stored on the case, the requests, and the
\* uploaded_documents of the responses that said success
Uploads(documents, requests, uploaded_documents) ==
    [documents |-> documents, requests |-> requests,
     uploaded_documents |-> uploaded_documents]

\* the case has no documents entry, and no request is being served
NoUploads ==
    Uploads(<<>>, [r \in Uploaders |-> UploadRequest("idle", <<>>, <<>>)], {})

\* upload_case_documents up to the uploads: get_case reads the case, and
\* its documents entry is what the request will add to
upload_read_case(state, request, files) ==
    [state EXCEPT !.requests[request] = UploadRequest("read", files, state.documents)]

\* upload_case_documents from the uploads on: the files S3 stored are the
\* uploaded_docs; when there are some, update_case sets documents to the
\* list read before followed by them; the response says success
upload_write_case(state, request, uploaded_docs) ==
    [state EXCEPT
        !.documents = IF uploaded_docs # <<>>
                      THEN state.requests[request].existing_docs \o uploaded_docs
                      ELSE @,
        !.requests[request] = UploadRequest("idle", <<>>, <<>>),
        !.uploaded_documents = @ \cup {uploaded_docs[i] : i \in 1..Len(uploaded_docs)}]

(* --------------------------- the log manager -------------------------- *)

\* the threads that call LogManager.get_instance
Threads == {"t1", "t2", "t3"}

\* the class attributes _instance (0 is None, n the n-th LogManager that
\* was constructed) and _lock (its holder, or None), the number of
\* LogManagers constructed, and for each thread where it stands in
\* get_instance and what its last call returned
Singleton(instance, lock, constructed, pc, returned) ==
    [instance |-> instance, lock |-> lock, constructed |-> constructed,
     pc |-> pc, returned |-> returned]

\* the class before any call of get_instance
NoInstance ==
    Singleton(0, None, 0, [t \in Threads |-> "idle"], [t \in Threads |-> 0])

\* the test outside the lock: cls._instance is None
first_check(class, t) ==
    [class EXCEPT !.pc[t] = IF class.instance = 0 THEN "acquire" ELSE "return"]

\* with cls._lock: the lock is taken when it is free
acquire(class, t) == [class EXCEPT !.lock = t, !.pc[t] = "locked"]

\* the body of the with block, were the test not repeated under the lock
construct_unchecked(class, t) ==
    [class EXCEPT !.constructed = @ + 1, !.instance = class.constructed + 1,
                  !.pc[t] = "release"]

\* the body of the with block: the test is repeated, and a LogManager is
\* constructed and assigned when _instance is still None
construct(class, t) ==
    IF class.instance = 0
    THEN [class EXCEPT !.constructed = @ + 1, !.instance = class.constructed + 1,
                       !.pc[t] = "release"]
    ELSE [class EXCEPT !.pc[t] = "release"]

\* the end of the with block
release(class, t) == [class EXCEPT !.lock = None, !.pc[t] = "return"]

\* return cls._instance
return_instance(class, t) ==
    [class EXCEPT !.returned[t] = class.instance, !.pc[t] = "idle"]

\* a LogEntry: id stands for its id, which no other entry has
LogEntry(id, level, agent) == [id |-> id, level |-> level, agent |-> agent]

\* the method called, what it was given (limit is None or an int) and what
\* it returned, as the ids of the entries
LogQuery(op, limit, level, agent, result) ==
    [op |-> op, limit |-> limit, level |-> level, agent |-> agent,
     result |-> result]

NoLogQuery == LogQuery(None, PyNone, None, None, <<>>)

\* a LogManager: max_logs, the deque of the entries, the number of entries
\* added so far, and the last call of get_logs
LogManager(max_logs, logs, added, got) ==
    [max_logs |-> max_logs, logs |-> logs, added |-> added, got |-> got]

\* LogManager(max_logs = MaxLogs)
NewLogManager == LogManager(MaxLogs, <<>>, 0, NoLogQuery)

\* deque(maxlen = max_logs).append: at the bound the oldest entry is dropped
deque_append(logs, max_logs, entry) ==
    IF Len(logs) < max_logs THEN Append(logs, entry)
    ELSE Tail(Append(logs, entry))

\* add_log
add_log(manager, level, agent) ==
    [manager EXCEPT
        !.added = @ + 1,
        !.logs = deque_append(@, manager.max_logs,
                              LogEntry(manager.added + 1, level, agent))]

\* filtered_logs[-limit:]
last_entries(filtered_logs, limit) ==
    IF limit >= Len(filtered_logs) THEN filtered_logs
    ELSE SubSeq(filtered_logs, Len(filtered_logs) - limit + 1, Len(filtered_logs))

\* get_logs: the entries of the level and of the agent, when one is given,
\* and the last limit of them when limit is neither None nor 0
get_logs(manager, limit, level, agent) ==
    LET by_level == IF level # None
                    THEN SelectSeq(manager.logs, LAMBDA log : log.level = level)
                    ELSE manager.logs
        by_agent == IF agent # None
                    THEN SelectSeq(by_level, LAMBDA log : log.agent = agent)
                    ELSE by_level
    IN  IF limit # PyNone /\ limit.v # 0 THEN last_entries(by_agent, limit.v)
        ELSE by_agent

\* get_live_logs and get_detailed_logs: get_logs with the limit alone, and
\* the dict of each entry, which keeps its id
get_live_logs(manager, limit) ==
    LET logs == get_logs(manager, PyInt(limit), None, None)
    IN  [i \in 1..Len(logs) |-> [id |-> logs[i].id, level |-> logs[i].level,
                                 agent |-> logs[i].agent]]

(* ------------------------------ inputs -------------------------------- *)

\* wall-clock dates around the 600 day limit, 10 and 700 days back, and ahead
DateTicks ==
    {0 - Days(700), 0 - Days(TIME_BARRED_DAYS + 1), 0 - Days(TIME_BARRED_DAYS) - 1,
     0 - Days(TIME_BARRED_DAYS), 1 - Days(TIME_BARRED_DAYS), 0 - Days(10), Days(1)}

DateValues ==
    {IsoDate(t) : t \in DateTicks} \cup {BadDate, NoneDate, MissingDate}

\* the transactions the decision engine is run on
Transactions ==
    {Tx(t, d, d2, a1, a2, a3, a4) :
        t \in {"TXN001", Missing},
        d \in DateValues,
        d2 \in {MissingDate, IsoDate(0 - Days(700))},
        a1 \in {PyMissing, PyNone, PyBadStr, PyNumStr(Usd(100)),
                PyFloat(Usd(50)), PyFloat(Usd(100)), PyFloat(Usd(100) + 1)},
        a2 \in {PyMissing, PyFloat(Usd(100)), PyFloat(Usd(100) + 1),
                PyDecimal(Usd(50))},
        a3 \in {PyMissing, PyInt(Usd(150))},
        a4 \in {PyMissing, PyFloat(Usd(50))}}

\* the transactions disputes are filed on, as get_transaction_by_id gives
\* them: the two seeded transactions, of 99.00 and 150.00, 10 days old
DisputeTxns ==
    {Tx("TXN001", IsoDate(0 - Days(10)), MissingDate, PyMissing, PyFloat(Usd(99)),
        PyMissing, PyMissing),
     Tx("TXN002", IsoDate(0 - Days(10)), MissingDate, PyMissing, PyFloat(Usd(150)),
        PyMissing, PyMissing)}

Statuses == closed_statuses \cup {STATUS_FORWARDED_TO_ACQUIRER}

\* the field updates the external investigation applies: the dispute_status
\* it closes a case with
UpdateInputs ==
    {Updates(s, Missing, PyMissing) : s \in {"RESOLVED_ACQUIRER", "CLOSED"}}

\* the table names and index names a caller of the query tool gives: the
\* ones of the tool's description and one more of each
TableNames == valid_tables \cup {"ptr_dispute_resol_audit_db"}

IndexNames == {None, "TransactionIndex", "CustomerIndex", "StatusIndex"}

\* key conditions on a case_id, of a case of the table or not, on a
\* transaction_id and on a customer_id; and none
KeyConditions(table) ==
    {NoKey, KeyCondition("transaction_id", NoneId, "TXN001"),
     KeyCondition("customer_id", NoneId, "CUST001")}
      \cup {KeyCondition("case_id", n, None) : n \in 1..(Len(table) + 1)}

\* the case dicts an agent hands to a tool: the ones process_dispute would
\* build for the seeded transactions
CaseDicts(clock) ==
    {build_case_data(tx, determine_case_status(tx, clock), NoneId, clock) :
        tx \in DisputeTxns}

\* the calls of the query tool that are drawn
QueryInputs(table, clock) ==
    {QueryArgs(t, "query", k, i, NoCase, NoUpdates) :
        t \in TableNames, k \in KeyConditions(table), i \in IndexNames}
      \cup {QueryArgs(t, "get_item", k, None, NoCase, NoUpdates) :
               t \in TableNames, k \in KeyConditions(table)}
      \cup {QueryArgs(t, op, NoKey, None, NoCase, NoUpdates) :
               t \in TableNames, op \in {"scan", "delete_item"}}
      \cup {QueryArgs(t, "put_item", NoKey, None, item, NoUpdates) :
               t \in TableNames,
               item \in {NoCase} \cup
                         {[c EXCEPT !.case_id = n] :
                             c \in CaseDicts(clock), n \in 1..(Len(table) + 1)}}
      \cup {QueryArgs(t, "update_item", k, None, NoCase, u) :
               t \in TableNames, k \in KeyConditions(table),
               u \in {NoUpdates} \cup UpdateInputs}

\* key conditions on the cards table: the customer's partition alone, a
\* sort key condition alone, and both, in either order of the dict
RangeEntries ==
    {KeyEntry("composite_key", op, NoneId, "CARD#1234") :
        op \in {"eq", "begins_with", "between", "other"}}

PartitionEntry == KeyEntry("customer_id", "eq", NoneId, "CUST001")

RangeConditions ==
    {<<PartitionEntry>>}
      \cup {<<r>> : r \in RangeEntries}
      \cup {<<PartitionEntry, r>> : r \in RangeEntries}
      \cup {<<r, PartitionEntry>> : r \in RangeEntries}

\* the field updates a caller of update_case or of the tool's update_item
\* may give: a closing status, a credit of a float amount, and a closing
\* status with one more field, updated_at, created_at, transaction_id,
\* customer_id or case_id
FieldUpdateInputs ==
    LET closing == Updates("CLOSED", Missing, PyMissing)
    IN  {closing,
         Updates("RESOLVED_CUSTOMER", CREDIT_TYPE_PERMANENT, PyFloat(Usd(99))),
         [closing EXCEPT !.updated_at = IsoDate(0 - Days(10))],
         [closing EXCEPT !.created_at = IsoDate(0 - Days(10))],
         [closing EXCEPT !.transaction_id = "TXN002"],
         [closing EXCEPT !.customer_id = "CUST002"],
         [closing EXCEPT !.case_id = PyInt(MaxToolCases + 1)]}

\* the ids a request is written with: the case_id of a case of the table
\* or of none, in lower or upper case hex, and one with a run of digits; the customer of the sample data and another; the two sample
\* transactions and a third
UuidTokens(table) ==
    {Token("uuid", "<uuid>", n, up, None) : n \in 1..(Len(table) + 1), up \in BOOLEAN}
      \cup {Token("uuid", "<uuid>", 1, FALSE, "8492")}

CustTokens ==
    {Token("cust", "CUST001", NoneId, up, None) : up \in BOOLEAN}
      \cup {Token("cust", "CUST002", NoneId, TRUE, None)}

TxnTokens ==
    {Token("txn", "TXN001", NoneId, up, None) : up \in BOOLEAN}
      \cup {Token("txn", id, NoneId, TRUE, None) : id \in {"TXN002", "TXN999"}}

DigitTokens == {Token("digits", run, NoneId, FALSE, run) : run \in {"1234", "5678"}}

\* the request texts that are drawn
Requests(table) ==
    LET u == Token("uuid", "<uuid>", 1, FALSE, None)
        c == Token("cust", "CUST001", NoneId, TRUE, None)
        t == Token("txn", "TXN001", NoneId, TRUE, None)
    IN  {<<Word("case"), Word("status"), x>> : x \in UuidTokens(table)}
          \cup {<<[Word("case") EXCEPT !.upper = TRUE],
                  [Word("status") EXCEPT !.upper = TRUE], x>> : x \in UuidTokens(table)}
          \cup {<<Word(w), Word("cases"), x>> :
                   w \in {"my", "customer", "all", "the"}, x \in CustTokens}
          \cup {<<Word("dispute"), x>> : x \in TxnTokens}
          \cup {<<Word("dispute"), x, y>> : x \in TxnTokens, y \in CustTokens}
          \cup {<<Word("dispute"), t, c, x>> : x \in DigitTokens}
          \cup {<<Word("case"), Word("status"), u, Word("my"), Word("cases"), c>>,
                <<Word("my"), Word("cases"), c, Word("case"), Word("status"), u>>,
                <<Word("case"), Word("status"), u, Word("dispute"), t>>,
                <<Word("my"), Word("cases"), c, Word("dispute"), t>>,
                <<Word("my"), Word("cases")>>, <<Word("case"), Word("status")>>,
                <<Word("show"), Word("cards"), c>>,
                <<c, Token("digits", "1234", NoneId, FALSE, "1234")>>,
                <<Word("status")>>,
                <<Word("dispute"), Token("txn", "TXN1001", NoneId, TRUE, "1001")>>,
                <<Word("show"), Word("cards"),
                  Token("cust", "CUST1001", NoneId, TRUE, "1001")>>}

(* --------------------------- the state machine ------------------------ *)

NoCall == [Call(NoTx, 0, None, FALSE, NoDecision, FALSE, NoResult)
              EXCEPT !.op = "none"]

\* the invocations of process_dispute that may overlap
Procs == {"p1", "p2"}

\* an invocation: where it stands, its transaction, what its open-case
\* check returned, and what the call did once it has returned
Invocation(pc, transaction_data, existing, call) ==
    [pc |-> pc, tx |-> transaction_data, existing |-> existing, call |-> call]

Idle == Invocation("idle", NoTx, NoCase, NoCall)

Init ==
    /\ cases = <<>>
    /\ now = 0
    /\ last = NoCall
    /\ inv = [p \in Procs |-> Idle]
    /\ tool = NoToolCall
    /\ store_call = NoStoreCall
    /\ crew = NoCrewCall
    /\ mcp = NewClient
    /\ upload = NoUploads
    /\ singleton = NoInstance
    /\ log_manager = NewLogManager

\* one whole call of process_dispute on a transaction of txns; each store
\* operation succeeds or not as oks allows, and the index query may put any
\* item of the partition first
Dispute(txns, oks) ==
    /\ \E tx \in txns, lookup_ok \in oks, store_ok \in oks :
         \E pick \in first_items(cases, GetOr(tx.transaction_id, "unknown")) :
           \E done \in {process_dispute(cases, tx, now, lookup_ok, pick, store_ok)} :
               /\ Len(done.table) <= MaxCases
               /\ cases' = done.table
               /\ last' = done.call
    /\ UNCHANGED <<now, inv, tool, store_call, crew, mcp, upload, singleton, log_manager>>

ProcessDispute == Dispute(DisputeTxns, BOOLEAN)

\* one call of update_case on a case of the table (update_item on a
\* case_id that is not in the table is not drawn)
Update(oks) ==
    /\ \E case_id \in 1..Len(cases), updates \in UpdateInputs, store_ok \in oks :
         cases' = update_case(cases, case_id, updates, now, store_ok)
    /\ UNCHANGED <<now, last, inv, tool, store_call, crew, mcp, upload, singleton, log_manager>>

UpdateCase == Update(BOOLEAN)

\* the clock of datetime.utcnow()
Tick ==
    /\ now < MaxNow
    /\ now' = now + 1
    /\ UNCHANGED <<cases, last, inv, tool, store_call, crew, mcp, upload, singleton, log_manager>>

Next == ProcessDispute \/ UpdateCase \/ Tick

Spec == Init /\ [][Next]_vars

\* the same calls on a store that never fails
ReliableDispute == Dispute(DisputeTxns, {TRUE})

ReliableUpdate == Update({TRUE})

NextReliable == ReliableDispute \/ ReliableUpdate \/ Tick

SpecReliable == Init /\ [][NextReliable]_vars

\* a first dispute, on an empty table, of any transaction at any time
DecideOnce == last.op = "none" /\ Dispute(Transactions, BOOLEAN)

NextDecide == DecideOnce \/ Tick

SpecDecide == Init /\ [][NextDecide]_vars

\* An invocation runs up to the await of get_open_case_for_transaction:
\* the index query is executed against the table as it is now.
Lookup(p) ==
    /\ inv[p].pc = "idle"
    /\ \E tx \in DisputeTxns :
         \E pick \in first_items(cases, GetOr(tx.transaction_id, "unknown")) :
           inv' = [inv EXCEPT ![p] =
                     Invocation("checked", tx,
                                get_open_case_for_transaction(
                                    cases, GetOr(tx.transaction_id, "unknown"),
                                    TRUE, pick),
                                NoCall)]
    /\ UNCHANGED <<cases, now, last, tool, store_call, crew, mcp, upload, singleton, log_manager>>

\* The invocation resumes with what the check returned and runs, without
\* another await, to its return.
Finish(p) ==
    /\ inv[p].pc = "checked"
    /\ LET done == process_dispute_after_lookup(cases, inv[p].tx, now,
                                                inv[p].existing, TRUE)
       IN  /\ Len(done.table) <= MaxCases
           /\ cases' = done.table
           /\ inv' = [inv EXCEPT ![p] =
                        Invocation("done", inv[p].tx, inv[p].existing, done.call)]
    /\ UNCHANGED <<now, last, tool, store_call, crew, mcp, upload, singleton, log_manager>>

\* The caller has its result; the worker takes the next request.
Return(p) ==
    /\ inv[p].pc = "done"
    /\ inv' = [inv EXCEPT ![p] = Idle]
    /\ UNCHANGED <<cases, now, last, tool, store_call, crew, mcp, upload, singleton, log_manager>>

NextConc ==
    \/ \E p \in Procs : Lookup(p)
    \/ \E p \in Procs : Finish(p)
    \/ \E p \in Procs : Return(p)
    \/ Tick

\* two invocations of process_dispute on a reliable store, interleaved at
\* their awaits
SpecConc == Init /\ [][NextConc]_vars

\* one call of the query tool, by an agent or through the MCP server
QueryTool ==
    /\ \E args \in QueryInputs(cases, now), store_ok \in BOOLEAN :
         \E done \in {query_tool_run(cases, args, now, store_ok)} :
             /\ Len(done.table) <= MaxToolCases
             /\ cases' = done.table
             /\ tool' = done.call
    /\ UNCHANGED <<now, last, inv, store_call, crew, mcp, upload, singleton, log_manager>>

\* one call of the case creation tool by the agent that holds it
CaseCreationTool ==
    /\ \E case_data \in CaseDicts(now), store_ok \in BOOLEAN :
         \E done \in {case_creation_tool_run(cases, case_data, now, store_ok)} :
             /\ Len(done.table) <= MaxToolCases
             /\ cases' = done.table
             /\ tool' = done.call
    /\ UNCHANGED <<now, last, inv, store_call, crew, mcp, upload, singleton, log_manager>>

\* a call of process_dispute among the calls of the tools
ToolsDispute == ReliableDispute /\ Len(cases') <= MaxToolCases

NextTools == QueryTool \/ CaseCreationTool \/ ToolsDispute \/ Tick

\* the calls of the two tools and of process_dispute, one after another
SpecTools == Init /\ [][NextTools]_vars

\* one query of the query tool with a key condition on the cards table
RangeQuery ==
    /\ \E t \in TableNames, k \in RangeConditions, i \in IndexNames,
          store_ok \in BOOLEAN :
         tool' = query_tool_run(cases, QueryArgs(t, "query", k, i, NoCase, NoUpdates),
                                now, store_ok).call
    /\ UNCHANGED <<cases, now, last, inv, store_call, crew, mcp, upload, singleton, log_manager>>

NextQuery == RangeQuery \/ Tick

\* queries with key conditions of one and two entries
SpecQuery == Init /\ [][NextQuery]_vars

\* a caller calls a method of the client
StoreCallStart ==
    /\ store_call.pc # "running"
    /\ \/ \E op \in {"get_customer_cards", "get_card_transactions",
                      "get_transaction", "get_case_by_transaction"} :
            store_call' = NewStoreCall(op, NoneId, NoUpdates, NoCase)
       \/ \E case_id \in 1..(Len(cases) + 1) :
            store_call' = NewStoreCall("get_case", case_id, NoUpdates, NoCase)
       \/ \E case_id \in 1..Len(cases), updates \in UpdateInputs :
            store_call' = NewStoreCall("update_case", case_id, updates, NoCase)
       \/ \E case_data \in CaseDicts(now) :
            /\ Len(cases) < MaxToolCases
            /\ store_call' = NewStoreCall("create_case", Len(cases) + 1, NoUpdates,
                                          [case_data EXCEPT !.case_id = Len(cases) + 1])
    /\ UNCHANGED <<cases, now, last, inv, tool, crew, mcp, upload, singleton, log_manager>>

\* the method is invoked, once more if it has been before, and the store
\* does one of the things it can do
StoreCallAttempt ==
    /\ store_call.pc = "running"
    /\ \E outcome \in StoreOutcomes :
         /\ store_call' = invoke(store_call, outcome)
         /\ cases' =
               CASE store_call.op = "update_case" ->
                        update_case(cases, store_call.case_id, store_call.updates,
                                    now, outcome = "ok")
                 [] store_call.op = "create_case" ->
                        create_case(cases, store_call.case_data, outcome = "ok").table
                 [] OTHER -> cases
    /\ UNCHANGED <<now, last, inv, tool, crew, mcp, upload, singleton, log_manager>>

NextRetry == StoreCallStart \/ StoreCallAttempt \/ Tick

\* calls of the methods of the client, one after another, each with the
\* attempts async_retry makes of it
SpecRetry == Init /\ [][NextRetry]_vars

\* one call of update_case on a case of the table, with any of the field
\* updates: the method catches what the store raises, so the wrapper of
\* async_retry invokes it once
UpdateFields ==
    /\ \E case_id \in 1..Len(cases), updates \in FieldUpdateInputs,
          outcome \in StoreOutcomes :
         /\ store_call' = invoke(NewStoreCall("update_case", case_id, updates, NoCase),
                                 outcome)
         /\ cases' = update_case(cases, case_id, updates, now, outcome = "ok")
    /\ UNCHANGED <<now, last, inv, tool, crew, mcp, upload, singleton, log_manager>>

\* one call of the query tool's update_item on a case of the Cases table
ToolUpdate ==
    /\ \E case_id \in 1..Len(cases), updates \in FieldUpdateInputs,
          store_ok \in BOOLEAN :
         LET done == query_tool_run(cases,
                                    QueryArgs(CASE_TABLE, "update_item",
                                              KeyCondition("case_id", case_id, None),
                                              None, NoCase, updates),
                                    now, store_ok)
         IN  /\ cases' = done.table
             /\ tool' = done.call
    /\ UNCHANGED <<now, last, inv, store_call, crew, mcp, upload, singleton, log_manager>>

NextUpdate == ToolsDispute \/ UpdateFields \/ ToolUpdate \/ Tick

\* cases are created by process_dispute and updated, through the client
\* and through the query tool
SpecUpdate == Init /\ [][NextUpdate]_vars

\* one call of process_request on a request text; the reads of the cards
\* table succeed or not, the Cases table is reliable
ProcessRequest ==
    /\ \E request \in Requests(cases), read_ok \in BOOLEAN :
         LET transaction_id == text_of(upper(search(lower(request), "txn"))) IN
         \E item \in first_transaction_items(transaction_id),
            pick \in first_items(cases, transaction_id) :
           \E done \in {process_request(cases, last, request, now, item, read_ok,
                                         TRUE, pick, TRUE)} :
               /\ Len(done.table) <= MaxToolCases
               /\ cases' = done.table
               /\ last' = done.call
               /\ crew' = done.crew
    /\ UNCHANGED <<now, inv, tool, store_call, mcp, upload, singleton, log_manager>>

\* one call of verify_transaction of the crew by another caller than
\* process_request, with or without a customer_id and a card_number
VerifyTransaction ==
    /\ \E transaction_id \in {"TXN001", "TXN002", "TXN999"},
          customer_id \in {None, "CUST001", "CUST002"},
          card_number \in {None, "1234", "5678"}, read_ok \in BOOLEAN :
         \E item \in first_transaction_items(transaction_id),
            pick \in first_items(cases, transaction_id) :
           \E done \in {crew_verify_transaction(cases, last, transaction_id,
                                                 customer_id, card_number, now, item,
                                                 read_ok, TRUE, pick, TRUE)} :
               /\ Len(done.table) <= MaxToolCases
               /\ cases' = done.table
               /\ last' = done.call
               /\ crew' = CrewCall("verify_transaction", <<>>, "verify_transaction",
                                   NoToken,
                                   IF customer_id = None THEN NoToken
                                   ELSE Token("cust", customer_id, NoneId, TRUE, None),
                                   Token("txn", transaction_id, NoneId, TRUE, None),
                                   card_number, done.success)
    /\ UNCHANGED <<now, inv, tool, store_call, mcp, upload, singleton, log_manager>>

\* one call of get_customer_cases of the crew by another caller than
\* process_request; success is the success entry of the agent's result
GetCustomerCases ==
    /\ \E customer_id \in {"CUST001", "CUST002"}, list_ok \in BOOLEAN :
         crew' = [CrewCall("get_customer_cases", <<>>, "get_customer_cases", NoToken,
                           Token("cust", customer_id, NoneId, TRUE, None), NoToken,
                           None, customer_cases_lookup(cases, customer_id, list_ok).success)
                    EXCEPT !.cases = crew_get_customer_cases(cases, customer_id, list_ok),
                           !.list_ok = list_ok]
    /\ UNCHANGED <<cases, now, last, inv, tool, store_call, mcp, upload, singleton, log_manager>>

NextCrew == ProcessRequest \/ VerifyTransaction \/ GetCustomerCases \/ Tick

\* the calls of the crew, one after another
SpecCrew == Init /\ [][NextCrew]_vars

\* a call of _send_request begins: the request is written, or the write
\* raises
SendRequest ==
    /\ mcp.pc = "idle"
    /\ mcp.request_id_counter < MaxRequests
    /\ \E method \in {"tools/call", "tools/list", "resources/list"},
          write_ok \in BOOLEAN :
         mcp' = send_request(mcp, method, write_ok)
    /\ UNCHANGED <<cases, now, last, inv, tool, store_call, crew, upload, singleton, log_manager>>

\* one round of the loop of MCPServer.run: a line of stdin is read and
\* handled, and the response is printed
ServerRun ==
    /\ mcp.stdin # <<>>
    /\ mcp' = [mcp EXCEPT !.stdin = Tail(@),
                          !.stdout = Append(@, handle_request(Head(mcp.stdin)))]
    /\ UNCHANGED <<cases, now, last, inv, tool, store_call, crew, upload, singleton, log_manager>>

\* one round of read_output of the reader thread: a line of the server's
\* stdout is put in the queue
ReadOutput ==
    /\ mcp.stdout # <<>>
    /\ mcp' = [mcp EXCEPT !.stdout = Tail(@),
                          !.output_queue = Append(@, Head(mcp.stdout))]
    /\ UNCHANGED <<cases, now, last, inv, tool, store_call, crew, upload, singleton, log_manager>>

\* the wait of _send_request ends with a response of the queue
Receive ==
    /\ mcp.pc = "waiting"
    /\ mcp.output_queue # <<>>
    /\ mcp' = receive(mcp)
    /\ UNCHANGED <<cases, now, last, inv, tool, store_call, crew, upload, singleton, log_manager>>

\* the wait of _send_request ends after 30 seconds with the queue empty
Timeout ==
    /\ mcp.pc = "waiting"
    /\ mcp.output_queue = <<>>
    /\ mcp' = timeout(mcp)
    /\ UNCHANGED <<cases, now, last, inv, tool, store_call, crew, upload, singleton, log_manager>>

NextMcp == SendRequest \/ ServerRun \/ ReadOutput \/ Receive \/ Timeout

\* the caller of the MCP client tool, the server process and the reader
\* thread
SpecMcp == Init /\ [][NextMcp]_vars

\* a request of upload_case_documents for the case begins: the case is
\* read
UploadReadCase ==
    /\ \E r \in Uploaders, files \in {<<"a.pdf">>, <<"b.pdf">>, <<"a.pdf", "b.pdf">>} :
         /\ upload.requests[r].pc = "idle"
         /\ Len(upload.documents) + Len(files) <= MaxDocuments
         /\ upload' = upload_read_case(upload, r, files)
    /\ UNCHANGED <<cases, now, last, inv, tool, store_call, crew, mcp, singleton, log_manager>>

\* the request uploads its files, each stored by S3 or not, and writes the
\* documents of the case
UploadWriteCase ==
    /\ \E r \in Uploaders :
         /\ upload.requests[r].pc = "read"
         /\ \E stored \in SUBSET (1..Len(upload.requests[r].files)) :
              LET files == upload.requests[r].files
                  kept == SelectSeq([i \in 1..Len(files) |-> i], LAMBDA i : i \in stored)
                  uploaded_docs == [k \in 1..Len(kept) |-> Document(r, files[kept[k]])]
              IN  upload' = upload_write_case(upload, r, uploaded_docs)
    /\ UNCHANGED <<cases, now, last, inv, tool, store_call, crew, mcp, singleton, log_manager>>

NextUpload == UploadReadCase \/ UploadWriteCase

\* requests of upload_case_documents on one case, served concurrently
SpecUpload == Init /\ [][NextUpload]_vars

\* one step of a call of get_instance by a thread
GetInstance(t) ==
    /\ \/ /\ singleton.pc[t] = "idle"
          /\ singleton' = first_check(singleton, t)
       \/ /\ singleton.pc[t] = "acquire"
          /\ singleton.lock = None
          /\ singleton' = acquire(singleton, t)
       \/ /\ singleton.pc[t] = "locked"
          /\ singleton' = construct(singleton, t)
       \/ /\ singleton.pc[t] = "release"
          /\ singleton' = release(singleton, t)
       \/ /\ singleton.pc[t] = "return"
          /\ singleton' = return_instance(singleton, t)
    /\ UNCHANGED <<cases, now, last, inv, tool, store_call, crew, mcp, upload, log_manager>>

NextSingleton == \E t \in Threads : GetInstance(t)

\* threads that call get_instance again and again, with no reset_instance
SpecSingleton == Init /\ [][NextSingleton]_vars

\* one call of add_log
AddLog ==
    /\ log_manager.added < MaxEntries
    /\ \E level \in {"info", "error"}, agent \in {None, "MCP Server"} :
         log_manager' = add_log(log_manager, level, agent)
    /\ UNCHANGED <<cases, now, last, inv, tool, store_call, crew, mcp, upload, singleton>>

\* one call of get_logs
GetLogs ==
    /\ \E limit \in {PyNone} \cup {PyInt(n) : n \in 0..(MaxLogs + 1)},
          level \in {None, "info", "error"},
          agent \in {None, "MCP Server"} :
         LET logs == get_logs(log_manager, limit, level, agent) IN
         log_manager' =
            [log_manager EXCEPT
                !.got = LogQuery("get_logs", limit, level, agent,
                                 [i \in 1..Len(logs) |-> logs[i].id])]
    /\ UNCHANGED <<cases, now, last, inv, tool, store_call, crew, mcp, upload, singleton>>

\* one call of get_live_logs or of get_detailed_logs
GetLiveLogs ==
    /\ \E limit \in 0..(MaxLogs + 1) :
         LET logs == get_live_logs(log_manager, limit) IN
         log_manager' =
            [log_manager EXCEPT
                !.got = LogQuery("get_live_logs", PyInt(limit), None, None,
                                 [i \in 1..Len(logs) |-> logs[i].id])]
    /\ UNCHANGED <<cases, now, last, inv, tool, store_call, crew, mcp, upload, singleton>>

NextLogs == AddLog \/ GetLogs \/ GetLiveLogs

\* the calls on one LogManager
SpecLogs == Init /\ [][NextLogs]_vars

(* ------------------------------ claims -------------------------------- *)

\* the age the call computed for its transaction
AgeOf(call) == calculate_transaction_age_days(date_of(call.tx), call.at)

\* C1: a transaction whose computed age_days is over 600 is decided
\* REJECTED_TIME_BARRED with no credit type and no credit amount, whatever
\* its amount.
C1_TimeBarred ==
    (last.decided /\ AgeOf(last) > 600)
        => /\ last.decision.status = "REJECTED_TIME_BARRED"
           /\ last.decision.credit_type = None
           /\ last.decision.credit_amount = PyNone

\* C1 witness: a decided dispute older than 600 days whose amount is at
\* most 100.00
C1_Witness ==
    /\ last.decided
    /\ AgeOf(last) > 600
    /\ extract_amount_usd(last.tx) <= Usd(100)
    /\ last.decision.status = "REJECTED_TIME_BARRED"

\* C2: a transaction of age_days <= 600 and amount <= 100.00, both bounds
\* included, is decided RESOLVED_CUSTOMER with a PERMANENT credit of the
\* extracted amount.
C2_SmallAmount ==
    (last.decided /\ AgeOf(last) <= 600 /\ extract_amount_usd(last.tx) <= Usd(100))
        => /\ last.decision.status = "RESOLVED_CUSTOMER"
           /\ last.decision.credit_type = "PERMANENT"
           /\ last.decision.credit_amount = PyFloat(extract_amount_usd(last.tx))

\* C2 witness: a decided dispute of age exactly 600 and amount exactly 100.00
C2_Witness ==
    /\ last.decided
    /\ AgeOf(last) = 600
    /\ extract_amount_usd(last.tx) = Usd(100)
    /\ last.decision.status = "RESOLVED_CUSTOMER"

\* C3: a transaction of age_days <= 600 and amount > 100.00 is decided
\* FORWARDED_TO_ACQUIRER with a TEMPORARY credit of the extracted amount, and
\* the case process_dispute stores for it requires manual review.
C3_Forwarded ==
    (last.decided /\ AgeOf(last) <= 600 /\ extract_amount_usd(last.tx) > Usd(100))
        => /\ last.decision.status = "FORWARDED_TO_ACQUIRER"
           /\ last.decision.credit_type = "TEMPORARY"
           /\ last.decision.credit_amount = PyFloat(extract_amount_usd(last.tx))
           /\ (last.result.existing_case = FALSE /\ last.result.case_id # NoneId)
                => /\ last.result.requires_manual_review
                   /\ cases[last.result.case_id].requires_manual_review

\* C3 witness: a stored case of a 10 day old transaction of amount 100.01
C3_Witness ==
    /\ last.decided
    /\ AgeOf(last) = 10
    /\ extract_amount_usd(last.tx) = Usd(100) + 1
    /\ last.result.case_id # NoneId
    /\ cases[last.result.case_id].dispute_status = "FORWARDED_TO_ACQUIRER"
    /\ cases[last.result.case_id].requires_manual_review

\* the open cases of a transaction in the table
OpenCases(table, transaction_id) ==
    {i \in 1..Len(table) :
        /\ table[i].transaction_id = transaction_id
        /\ table[i].dispute_status \notin
             {"RESOLVED_CUSTOMER", "RESOLVED_ACQUIRER", "CLOSED", "REJECTED_TIME_BARRED"}}

\* the step is a call of process_dispute on transaction_id
IsDisputeOf(transaction_id) ==
    /\ last' # last
    /\ last'.op = "process_dispute"
    /\ last'.tx.transaction_id = transaction_id

\* the call returned a case it created
CreatedCase(call) ==
    /\ call.op = "process_dispute"
    /\ "existing_case" \in call.result.keys
    /\ call.result.existing_case = FALSE
    /\ call.result.case_id # NoneId

\* C4: when process_dispute is called twice in a row with one
\* transaction_id, the first call created a case (existing_case false) and
\* that case is still FORWARDED_TO_ACQUIRER at the second call, the second
\* call returns existing_case true and the first call's case_id.
C4_SecondDisputeReturnsSameCase ==
    [][(/\ CreatedCase(last)
        /\ IsDisputeOf(last.tx.transaction_id)
        /\ cases[last.result.case_id].dispute_status = "FORWARDED_TO_ACQUIRER")
         => /\ last'.result.existing_case = TRUE
            /\ last'.result.case_id = last.result.case_id]_vars

\* C5: the Cases table holds at most one open case per transaction_id.
C5_AtMostOneOpenCase ==
    \A i \in 1..Len(cases) :
        Cardinality(OpenCases(cases, cases[i].transaction_id)) <= 1

\* the invocation has returned from a dispute of a recent transaction of
\* more than 100.00
ForwardedDispute(p) ==
    /\ inv[p].pc = "done"
    /\ calculate_transaction_age_days(date_of(inv[p].tx), inv[p].call.at) <= 600
    /\ extract_amount_usd(inv[p].tx) > Usd(100)

\* C6: of two invocations of process_dispute on one recent transaction of
\* more than 100.00, interleaved in any order, exactly one creates a case:
\* the table ends with exactly one open case of the transaction and at most
\* one invocation returns existing_case false.
C6_ExactlyOneCreates ==
    (/\ ForwardedDispute("p1")
     /\ ForwardedDispute("p2")
     /\ inv["p1"].tx.transaction_id = inv["p2"].tx.transaction_id)
      => /\ Cardinality(OpenCases(cases, inv["p1"].tx.transaction_id)) = 1
         /\ ~ (CreatedCase(inv["p1"].call) /\ CreatedCase(inv["p2"].call))

\* C7: when an open case exists for the transaction_id, process_dispute
\* leaves the Cases table as it is and does not run the decision rules.
C7_OpenCaseLeavesTableUnchanged ==
    [][(/\ last' # last
        /\ last'.op = "process_dispute"
        /\ OpenCases(cases, Get(last'.tx.transaction_id)) # {})
         => /\ cases' = cases
            /\ ~ last'.decided]_vars

\* C8: every case of the table has credit_issued = (credit_type is not
\* null) and requires_manual_review = (dispute_status is
\* FORWARDED_TO_ACQUIRER).
C8_DerivedFlags ==
    \A i \in 1..Len(cases) :
        /\ cases[i].credit_issued = (cases[i].credit_type # None)
        /\ cases[i].requires_manual_review =
             (cases[i].dispute_status = "FORWARDED_TO_ACQUIRER")

\* C9: a call of process_dispute on a transaction without transaction_id
\* returns a failure and has neither looked up an open case under another
\* id nor put a case.
C9_MissingIdIsRejected ==
    (last.op = "process_dispute" /\ last.tx.transaction_id = Missing)
        => /\ "success" \in last.result.keys
           /\ last.result.success = FALSE
           /\ last.lookup_id = None
           /\ ~ last.put

\* C10: when create_case returns false, the result of process_dispute (here
\* for a transaction that has its transaction_id) carries the decision
\* computed for the transaction: its status, reason, credit_type and
\* credit_amount.
C10_FailureCarriesDecision ==
    (/\ last.op = "process_dispute"
     /\ last.tx.transaction_id # Missing
     /\ last.put
     /\ last.result.case_id = NoneId)
        => /\ {"dispute_status", "decision_reason", "credit_type", "credit_amount"}
                \subseteq last.result.keys
           /\ last.result.dispute_status = last.decision.status
           /\ last.result.decision_reason = last.decision.reason
           /\ last.result.credit_type = last.decision.credit_type
           /\ last.result.credit_amount = last.decision.credit_amount

\* C11: a call of process_dispute whose case write failed (here for a
\* transaction that has its transaction_id) returns a dict with success =
\* false and a message, and verify_transaction does not report success =
\* true around it.
C11_FailureIsStructured ==
    (/\ last.op = "process_dispute"
     /\ last.tx.transaction_id # Missing
     /\ last.put
     /\ last.result.case_id = NoneId)
        => /\ {"success", "message"} \subseteq last.result.keys
           /\ last.result.success = FALSE
           /\ last.result.message # None
           /\ verify_transaction(last.tx, last.result).success = FALSE

\* C12: at its return, every successful result of process_dispute, for a
\* created case and for an existing case alike, has the fourteen keys of
\* the documented result, each with the value the stored case has (amounts
\* by value).
C12_ResultCarriesCase ==
    [][(/\ last' # last
        /\ last'.op = "process_dispute"
        /\ "existing_case" \in last'.result.keys
        /\ last'.result.case_id # NoneId)
         => LET case == cases'[last'.result.case_id]
                result == last'.result
            IN  /\ {"case_id", "customer_id", "card_id", "transaction_id",
                    "dispute_status", "decision_reason", "credit_type",
                    "credit_amount", "credit_issued", "auto_decided",
                    "requires_manual_review", "created_at", "updated_at",
                    "existing_case"} \subseteq result.keys
                /\ result.case_id = case.case_id
                /\ result.customer_id = case.customer_id
                /\ result.card_id = case.card_id
                /\ result.transaction_id = case.transaction_id
                /\ result.dispute_status = case.dispute_status
                /\ result.decision_reason = case.decision_reason
                /\ result.credit_type = case.credit_type
                /\ (result.credit_amount = PyNone) = (case.credit_amount = PyNone)
                /\ result.credit_amount.v = case.credit_amount.v
                /\ result.credit_issued = case.credit_issued
                /\ result.auto_decided = case.auto_decided
                /\ result.requires_manual_review = case.requires_manual_review
                /\ result.created_at = case.created_at
                /\ result.updated_at = case.updated_at]_vars

\* none of amount_usd, amount, transaction_amount, value is a key of the dict
NoAmountField(transaction_data) ==
    \A i \in 1..Len(amount_fields) :
        transaction_data[amount_fields[i]].type = "missing"

\* C13 as stated: a transaction with none of the amount fields (here one
\* that has its transaction_id) is decided FORWARDED_TO_ACQUIRER on the
\* sentinel amount 999999.0.
C13_NoAmountIsForwarded ==
    (last.decided /\ last.tx.transaction_id # Missing /\ NoAmountField(last.tx))
        => /\ last.decision.status = "FORWARDED_TO_ACQUIRER"
           /\ last.decision.credit_amount = PyFloat(Usd(999999))

\* C13 amended: a transaction with none of the amount fields whose computed
\* age_days is at most 600 is decided FORWARDED_TO_ACQUIRER on the sentinel
\* amount 999999.0; one of age_days over 600 is REJECTED_TIME_BARRED; in
\* both cases process_dispute comes to a decision.
C13_NoAmountIsForwardedUnlessTimeBarred ==
    (last.op = "process_dispute" /\ NoAmountField(last.tx))
        => /\ last.decided
           /\ extract_amount_usd(last.tx) = Usd(999999)
           /\ AgeOf(last) <= 600
                => /\ last.decision.status = "FORWARDED_TO_ACQUIRER"
                   /\ last.decision.credit_type = "TEMPORARY"
                   /\ last.decision.credit_amount = PyFloat(Usd(999999))
           /\ AgeOf(last) > 600
                => last.decision.status = "REJECTED_TIME_BARRED"

\* C13 witness: a 10 day old transaction without amount field, forwarded
C13_Witness ==
    /\ last.decided
    /\ NoAmountField(last.tx)
    /\ AgeOf(last) = 10
    /\ last.decision.status = "FORWARDED_TO_ACQUIRER"
    /\ last.decision.credit_amount = PyFloat(Usd(999999))

\* the status the amount rule alone gives
AmountRule(transaction_data) ==
    IF extract_amount_usd(transaction_data) <= Usd(100)
    THEN "RESOLVED_CUSTOMER"
    ELSE "FORWARDED_TO_ACQUIRER"

\* C14 as stated: a transaction (here one that has its transaction_id)
\* whose transaction_date is missing, not a string or not ISO-8601 is never
\* decided REJECTED_TIME_BARRED: its status is the one of the amount rule.
C14_UnparsedDateIsRecent ==
    (/\ last.decided
     /\ last.tx.transaction_id # Missing
     /\ last.tx.transaction_date.kind # "iso")
        => /\ last.decision.status # "REJECTED_TIME_BARRED"
           /\ last.decision.status = AmountRule(last.tx)

\* C14 amended: a transaction whose date - its transaction_date, or its
\* date when it has no transaction_date key - is missing, not a string or
\* not ISO-8601 is never decided REJECTED_TIME_BARRED: its status is the one
\* of the amount rule.
C14_UnparsedDateOrFallbackIsRecent ==
    (/\ last.decided
     /\ \/ last.tx.transaction_date.kind \in {"bad", "None"}
        \/ /\ last.tx.transaction_date.kind = "missing"
           /\ last.tx.date.kind # "iso")
        => /\ last.decision.status # "REJECTED_TIME_BARRED"
           /\ last.decision.status = AmountRule(last.tx)
           /\ last.decision.reason.n = extract_amount_usd(last.tx)

\* C14 witness: a transaction_date that does not parse, beside a date key
\* of 700 days back, decided by its amount of 50.00
C14_Witness ==
    /\ last.decided
    /\ last.tx.transaction_date = BadDate
    /\ last.tx.date = IsoDate(0 - Days(700))
    /\ extract_amount_usd(last.tx) = Usd(50)
    /\ last.decision.status = "RESOLVED_CUSTOMER"

\* C15: for every transaction dict, whatever of its date and amount fields
\* is present, absent or malformed, the decision process_dispute obtains
\* from _determine_case_status has exactly one of the statuses
\* REJECTED_TIME_BARRED, RESOLVED_CUSTOMER, FORWARDED_TO_ACQUIRER, with the
\* credit of that status.
C15_DecisionIsTotal ==
    (last.op = "process_dispute" /\ last.put)
        => /\ last.decided
           /\ last.decision.status \in
                {"REJECTED_TIME_BARRED", "RESOLVED_CUSTOMER", "FORWARDED_TO_ACQUIRER"}
           /\ (last.decision.status = "REJECTED_TIME_BARRED")
                = (last.decision.credit_type = None)
           /\ (last.decision.status = "REJECTED_TIME_BARRED")
                = (last.decision.credit_amount = PyNone)
           /\ last.decision.reason.text # None

\* C15 witness: a decision on a transaction whose date is not a string
\* and whose first amount field holds a string that is not a number
C15_Witness ==
    /\ last.decided
    /\ last.tx.transaction_date = NoneDate
    /\ last.tx.amount_usd = PyBadStr
    /\ last.decision.status = "FORWARDED_TO_ACQUIRER"

\* the amount of the first of the fields from number i on that holds a
\* number or a string that parses to one; the sentinel when there is none
RECURSIVE FirstAmountFrom(_, _)
FirstAmountFrom(transaction_data, i) ==
    IF i > Len(amount_fields) THEN Usd(999999)
    ELSE IF transaction_data[amount_fields[i]].type \in {"str", "int", "float", "Decimal"}
         THEN transaction_data[amount_fields[i]].v
         ELSE FirstAmountFrom(transaction_data, i + 1)

\* C16: the amount a decision is taken on (here for a transaction that has
\* its transaction_id and is not time-barred, whose credit is that amount)
\* is the one of the first of amount_usd, amount, transaction_amount, value
\* that yields an amount, a field that is absent, null or unparseable being
\* passed over; it is the sentinel 999999.0 only when no field yields one.
C16_FirstYieldingFieldWins ==
    (/\ last.decided
     /\ last.tx.transaction_id # Missing
     /\ AgeOf(last) <= 600)
        => last.decision.credit_amount = PyFloat(FirstAmountFrom(last.tx, 1))

\* C17: whatever the TransactionIndex query of get_case_by_transaction
\* puts first, the case returned for a transaction_id is one of greatest
\* created_at among the cases of that transaction_id, and so is the case
\* get_open_case_for_transaction tests for openness.
C17_LatestCaseIsReturned ==
    \A k \in 1..Len(cases) :
        \A pick \in first_items(cases, cases[k].transaction_id) :
            LET transaction_id == cases[k].transaction_id
                case == get_case_by_transaction(cases, transaction_id, TRUE, pick)
                open == get_open_case_for_transaction(cases, transaction_id, TRUE, pick)
            IN  /\ case # NoCase
                /\ \A i \in TransactionIndex(cases, transaction_id) :
                       cases[i].created_at <= case.created_at
                /\ open # NoCase
                      => \A i \in TransactionIndex(cases, transaction_id) :
                            cases[i].created_at <= open.created_at

\* C18: every step that adds a case to the Cases table is the step of a
\* call of process_dispute whose open-case check, made for the
\* transaction_id of the added case, returned no case.
C18_CaseAddedOnlyAfterCheck ==
    [][Len(cases') > Len(cases)
         => /\ last' # last
            /\ last'.op = "process_dispute"
            /\ last'.decided
            /\ last'.lookup_id = cases'[Len(cases')].transaction_id]_vars

\* the two values are the same amount, or both None
SameAmount(x, y) == (x.type = "None") = (y.type = "None") /\ x.v = y.v

C20_NoStoreCallOutsideAllowList ==
    (/\ tool.name = "dynamo_query_creator"
     /\ \/ tool.table_name \notin
             {"ptr_dispute_resol_customer_cards_and_transactions",
              "ptr_dispute_resol_case_db"}
        \/ tool.index_name \notin {None, "TransactionIndex", "CustomerIndex"})
        => /\ tool.requests = <<>>
           /\ tool.success = FALSE

\* C21: a query of the query tool on one of the two tables, on the table
\* itself or on one of its indexes, sends the store no request whose key
\* condition names an attribute that is not a key of what is queried, and
\* no scan.
C21_NonKeyQueryIsNotForwarded ==
    (/\ tool.name = "dynamo_query_creator"
     /\ tool.operation = "query"
     /\ tool.table_name \in valid_tables
     /\ hash_key(tool.table_name, tool.index_name) # None)
        => \A i \in 1..Len(tool.requests) :
              /\ tool.requests[i].verb # "scan"
              /\ \A c \in tool.requests[i].key :
                     c.attr \in {hash_key(tool.table_name, tool.index_name),
                                 range_key(tool.table_name, tool.index_name)}

\* the call is a query of the cards table by its key whose key_condition
\* holds the partition key equality and a begins_with or between condition
\* on the sort key
IsRangeQuery(call) ==
    /\ call.name = "dynamo_query_creator"
    /\ call.operation = "query"
    /\ call.table_name = CARDS_TABLE
    /\ call.index_name = None
    /\ Len(call.key_condition) = 2
    /\ \E i, j \in 1..2 :
          /\ call.key_condition[i] = KeyEntry("customer_id", "eq", NoneId, "CUST001")
          /\ call.key_condition[j].attr = "composite_key"
          /\ call.key_condition[j].op \in {"begins_with", "between"}

\* C22: a query whose key_condition holds an equality on the partition key
\* and a begins_with or between condition on the sort key, in either
\* order, sends the store the conjunction of the two conditions.
C22_RangeQuerySendsBothConditions ==
    IsRangeQuery(tool)
        => /\ Len(tool.requests) = 1
           /\ tool.requests[1].key =
                 {Condition(tool.key_condition[i].attr, tool.key_condition[i].op) :
                     i \in 1..2}

\* C26: a call of a method decorated with async_retry has invoked the
\* method at most 3 times, and it goes on only while fewer than 3
\* invocations are made; when every invocation so far raised a throttling
\* error the call is still under way before the third one and has raised
\* the throttling error after it.
C26_RetryIsBounded ==
    store_call.op \in retry_wrapped
        => /\ store_call.attempt <= 3
           /\ Len(store_call.outcomes) = store_call.attempt
           /\ store_call.pc = "running" => store_call.attempt < 3
           /\ (/\ store_call.attempt > 0
               /\ \A i \in 1..store_call.attempt : store_call.outcomes[i] = "throttled")
                 => IF store_call.attempt = 3
                    THEN store_call.pc = "raised" /\ store_call.result = "throttled"
                    ELSE store_call.pc = "running"

\* C26 witness: a call of a decorated method throttled three times, and
\* then raised
C26_Witness ==
    /\ store_call.op = "get_case"
    /\ store_call.outcomes = <<"throttled", "throttled", "throttled">>
    /\ store_call.pc = "raised"

\* C27: an invocation of a decorated method that raises a ClientError of
\* a code other than throttling, or any other exception, is the last
\* invocation of the call, which raises that error.
C27_OtherErrorIsNotRetried ==
    store_call.op \in retry_wrapped
        => \A i \in 1..Len(store_call.outcomes) :
              store_call.outcomes[i] \in {"client_error", "exception"}
                 => /\ i = Len(store_call.outcomes)
                    /\ store_call.pc = "raised"
                    /\ store_call.result = store_call.outcomes[i]

\* C28: in a call of create_case, update_case or get_case_by_transaction,
\* an invocation to which the store answered with a throttling error is
\* followed by another invocation, unless it was the third.
C28_ThrottlingIsRetried ==
    store_call.op \in {"create_case", "update_case", "get_case_by_transaction"}
        => \A i \in 1..Len(store_call.responses) :
              (store_call.responses[i] = "throttled" /\ i < 3)
                 => \/ store_call.pc = "running"
                    \/ i < Len(store_call.responses)

\* C23: no amount of a stored case is a float, and no put_item or
\* update_item request of the query tool carries a float.
C23_NoFloatReachesTheStore ==
    /\ \A i \in 1..Len(cases) :
          "float" \notin {cases[i].transaction_amount.type, cases[i].credit_amount.type}
    /\ \A i \in 1..Len(tool.requests) :
          tool.requests[i].verb \in {"put_item", "update_item"}
             => ~ tool.requests[i].floats

\* the step is a call of update_case that returned True, or a call of the
\* query tool's update_item that returned success, on the case case_id
SuccessfulUpdate(case_id) ==
    \/ /\ store_call' # store_call
       /\ store_call'.op = "update_case"
       /\ store_call'.result = "True"
       /\ store_call'.case_id = case_id
    \/ /\ tool' # tool
       /\ tool'.operation = "update_item"
       /\ tool'.success
       /\ tool'.key_condition = KeyCondition("case_id", case_id, None)

\* C24: a successful update of a case leaves it with updated_at the time
\* of the update and with the created_at it had.
C24_UpdateStampsAndKeepsCreatedAt ==
    [][\A case_id \in 1..Len(cases) :
          SuccessfulUpdate(case_id)
             => /\ cases'[case_id].updated_at = now
                /\ cases'[case_id].created_at = cases[case_id].created_at]_vars

\* the dict of updates has one of the fields that are fixed at creation
HasFixedField(updates) ==
    \/ updates.case_id # PyMissing
    \/ updates.transaction_id # Missing
    \/ updates.customer_id # Missing
    \/ updates.created_at # MissingDate

\* C25: no step changes the case_id, transaction_id, customer_id or
\* created_at of a case of the table, and a call of update_case whose
\* updates have one of these fields returns False and leaves the table as
\* it was.
C25_FixedFieldsNeverChange ==
    [][/\ \A i \in 1..Len(cases) :
             /\ cases'[i].case_id = cases[i].case_id
             /\ cases'[i].transaction_id = cases[i].transaction_id
             /\ cases'[i].customer_id = cases[i].customer_id
             /\ cases'[i].created_at = cases[i].created_at
       /\ (/\ store_call' # store_call
           /\ store_call'.op = "update_case"
           /\ HasFixedField(store_call'.updates))
             => store_call'.result = "False" /\ cases' = cases]_vars

\* the call of verify_transaction names a transaction that is not in the
\* cards table, or it gives a customer_id or a card_number that is not the
\* one of the stored transaction
Unverified(call) ==
    \/ transaction_items(text_of(call.transaction_id)) = {}
    \/ \A item \in transaction_items(text_of(call.transaction_id)) :
          \/ call.customer_id # NoToken /\ text_of(call.customer_id) # item.customer_id
          \/ call.card_number # None /\ call.card_number # item.card_number

\* C29: a call of verify_transaction of the crew for a transaction that
\* does not exist, or with a customer_id or card_number that does not match
\* it, returns a failure, adds and changes no case, and makes no call of
\* process_dispute.
C29_DisputeIsGatedOnVerification ==
    [][(/\ crew' # crew
        /\ crew'.route = "verify_transaction"
        /\ Unverified(crew'))
          => /\ ~ crew'.success
             /\ cases' = cases
             /\ last' = last]_vars

\* C29 witness: TXN001 was disputed and has its case, and then
\* verify_transaction for TXN002 with the customer_id of another
\* customer failed: TXN002 has no case
C29_Witness ==
    /\ crew.op = "verify_transaction"
    /\ text_of(crew.transaction_id) = "TXN002"
    /\ text_of(crew.customer_id) = "CUST002"
    /\ ~ crew.success
    /\ Len(cases) = 1
    /\ cases[1].transaction_id = "TXN001"

\* the first piece of the kind in the request, as it is written
written(request, kind) ==
    request[CHOOSE i \in 1..Len(request) :
               /\ request[i].kind = kind
               /\ \A j \in 1..(i - 1) : request[j].kind # kind]

\* the request has 'case', 'status' and a case id in it
CaseStatusRequest(request) ==
    /\ contains(lower(request), "case")
    /\ contains(lower(request), "status")
    /\ \E i \in 1..Len(request) : request[i].kind = "uuid"

\* the request has 'my cases' or 'customer cases' and a customer id in it
CustomerCasesRequest(request) ==
    /\ \/ contains_phrase(lower(request), "my", "cases")
       \/ contains_phrase(lower(request), "customer", "cases")
    /\ \E i \in 1..Len(request) : request[i].kind = "cust"

\* the call of process_request was routed to routed, and the step of the
\* call added and changed no case and made no call of process_dispute
RoutedWithoutDispute(routed) ==
    /\ crew'.route = routed
    /\ cases' = cases
    /\ last' = last

\* C30 as stated: a request with 'case', 'status' and a case id is routed
\* to get_case_status with the id exactly as it is written in the request;
\* otherwise a request with 'my cases' or 'customer cases' and a customer
\* id is routed to get_customer_cases with the id in upper case; neither
\* starts dispute processing.
C30_RoutedWithTheIdAsWritten ==
    [][(crew' # crew /\ crew'.op = "process_request")
          => /\ CaseStatusRequest(crew'.request)
                  => /\ RoutedWithoutDispute("get_case_status")
                     /\ crew'.case_id = written(crew'.request, "uuid")
             /\ (~ CaseStatusRequest(crew'.request)
                   /\ CustomerCasesRequest(crew'.request))
                  => /\ RoutedWithoutDispute("get_customer_cases")
                     /\ crew'.customer_id =
                           [written(crew'.request, "cust") EXCEPT !.upper = TRUE]]_vars

\* C30, amended: a request with 'case', 'status' and a case id is routed
\* to get_case_status with the first case id of the request in lower
\* case; otherwise a request with 'my cases' or 'customer cases' and a
\* customer id is routed to get_customer_cases with the first customer id
\* in upper case; neither starts dispute processing.
C30_RoutedWithTheIdInLowerCase ==
    [][(crew' # crew /\ crew'.op = "process_request")
          => /\ CaseStatusRequest(crew'.request)
                  => /\ RoutedWithoutDispute("get_case_status")
                     /\ crew'.case_id =
                           [written(crew'.request, "uuid") EXCEPT !.upper = FALSE]
             /\ (~ CaseStatusRequest(crew'.request)
                   /\ CustomerCasesRequest(crew'.request))
                  => /\ RoutedWithoutDispute("get_customer_cases")
                     /\ crew'.customer_id =
                           [written(crew'.request, "cust") EXCEPT !.upper = TRUE]]_vars

\* C30 witness: a request with the id of the stored case in upper case
\* hex, after words for a dispute of TXN001 too, was routed to
\* get_case_status with the id in lower case, and the case was found
C30_Witness ==
    /\ crew.op = "process_request"
    /\ crew.route = "get_case_status"
    /\ written(crew.request, "uuid").upper
    /\ ~ crew.case_id.upper
    /\ crew.case_id.n = 1
    /\ crew.success

\* C31: the case created by a dispute that went through verify_transaction
\* of the crew carries the card of the transaction: its card_id is not
\* None when the stored transaction has a card_number.
C31_CreatedCaseCarriesTheCard ==
    [][(/\ crew' # crew
        /\ crew'.route = "verify_transaction"
        /\ Len(cases') = Len(cases) + 1)
          => \A item \in transaction_items(cases'[Len(cases')].transaction_id) :
                item.card_number # None => cases'[Len(cases')].card_id # None]_vars

\* C32: a listing of a customer's cases whose store query failed is
\* reported as a failure, by process_request and by get_customer_cases: it
\* does not report success with an empty list.
C32_FailedListingIsReported ==
    [][(/\ crew' # crew
        /\ crew'.route = "get_customer_cases"
        /\ ~ crew'.list_ok)
          => ~ (crew'.success /\ crew'.cases = {})]_vars

\* the transaction has cases in the table, and every one of them is open:
\* a lookup that completes returns an open case, whichever item the index
\* puts first
OnlyOpenCases(table, transaction_id) ==
    /\ OpenCases(table, transaction_id) # {}
    /\ \A i \in 1..Len(table) :
          table[i].transaction_id = transaction_id
             => i \in OpenCases(table, transaction_id)

\* C33: process_dispute creates a case only after an open-case lookup
\* that completed and found no open case: a call for a transaction whose
\* cases are all open adds no case, also when the query of the lookup
\* fails.
C33_NoCaseWithoutCompletedLookup ==
    [][(/\ last' # last
        /\ last'.op = "process_dispute"
        /\ OnlyOpenCases(cases, Get(last'.tx.transaction_id)))
          => Len(cases') = Len(cases)]_vars

\* the cases of the transaction that no other of its cases is younger than
\* are all in a closed status
LatestCaseIsClosed(table, transaction_id) ==
    /\ TransactionIndex(table, transaction_id) # {}
    /\ \A i \in TransactionIndex(table, transaction_id) :
          (\A j \in TransactionIndex(table, transaction_id) :
                table[j].created_at <= table[i].created_at)
             => i \notin OpenCases(table, transaction_id)

\* C34: when the latest case of a transaction_id is closed, a call of
\* process_dispute for it that succeeds returns existing_case false with
\* a case_id that was not in the table and adds one case; for a
\* transaction of at most 100.00 that is not time-barred the case added
\* carries a PERMANENT credit.
C34_ClosedCaseDoesNotStopADispute ==
    [][(/\ last' # last
        /\ last'.op = "process_dispute"
        /\ LatestCaseIsClosed(cases, Get(last'.tx.transaction_id))
        /\ last'.result.case_id # NoneId)
          => /\ CreatedCase(last')
             /\ last'.result.case_id \notin 1..Len(cases)
             /\ Len(cases') = Len(cases) + 1
             /\ (/\ extract_amount_usd(last'.tx) <= Usd(100)
                 /\ calculate_transaction_age_days(date_of(last'.tx), last'.at) <= 600)
                   => cases'[Len(cases')].credit_type = "PERMANENT"]_vars

\* C35: process_request takes a card number only from a card number of
\* the request: for a request without one, no digits of a customer id or
\* of a transaction id are passed on as the card number, and the request
\* is not routed to the card verification.
C35_CardNumberOnlyFromACardNumber ==
    [][(/\ crew' # crew
        /\ crew'.op = "process_request"
        /\ \A i \in 1..Len(crew'.request) : crew'.request[i].kind \in {"word", "cust", "txn"})
          => /\ crew'.card_number = None
             /\ crew'.route # "verify_card"]_vars

\* C36: the response _send_request returns carries the id of the request
\* of that call, for every sequence of requests, also after an earlier
\* request timed out and its response arrived late.
C36_ResponseAnswersTheRequest ==
    [][(mcp.pc = "waiting" /\ mcp'.pc = "idle")
          => mcp'.response.id = mcp.request.id]_vars

\* C37: the documents list stored on the case holds every document of
\* every upload_case_documents request that reported success, however
\* the requests on the case interleave.
C37_NoDocumentIsLost ==
    \A document \in upload.uploaded_documents :
        \E i \in 1..Len(upload.documents) : upload.documents[i] = document

\* C38: however concurrent calls of get_instance interleave, with no
\* reset_instance, at most one LogManager is ever constructed, and every
\* call that has returned returned that one instance.
C38_OneInstance ==
    /\ singleton.constructed <= 1
    /\ \A t \in Threads :
          /\ singleton.pc[t] \in {"release", "return"} => singleton.constructed = 1
          /\ singleton.returned[t] # 0
                => /\ singleton.constructed = 1
                   /\ singleton.returned[t] = singleton.instance

\* C38 witness: a thread found _instance None outside the lock and holds
\* the lock while _instance is set, a second thread has returned the
\* instance, and a third waits for the lock
C38_Witness ==
    \E t \in Threads, u \in Threads, v \in Threads :
        /\ singleton.pc[t] = "locked"
        /\ singleton.instance # 0
        /\ singleton.returned[u] = singleton.instance
        /\ singleton.pc[v] = "acquire"

\* the ids of the entries of the buffer that pass the filters of the call
passing(manager, query) ==
    LET kept == SelectSeq(manager.logs,
                          LAMBDA log : /\ query.level \in {None, log.level}
                                       /\ query.agent \in {None, log.agent})
    IN  [i \in 1..Len(kept) |-> kept[i].id]

\* C39: a call of get_logs, get_live_logs or get_detailed_logs with a
\* limit n >= 0 returns at most n entries, the n last added of the entries
\* that pass the filters (all of them when they are fewer), in the order
\* they were added; the buffer never holds more than max_logs entries and
\* drops the oldest first.
C39_LimitBoundsTheResult ==
    [][/\ Len(log_manager'.logs) <= log_manager'.max_logs
       /\ \A i \in 1..Len(log_manager'.logs) :
             log_manager'.logs[i].id = log_manager'.added - Len(log_manager'.logs) + i
       /\ (log_manager'.got # log_manager.got /\ log_manager'.got.limit # PyNone)
             => LET result == log_manager'.got.result
                    all == passing(log_manager, log_manager'.got)
                    n == log_manager'.got.limit.v
                IN  /\ Len(result) <= n
                    /\ Len(result) = IF Len(all) < n THEN Len(all) ELSE n
                    /\ \A i \in 1..Len(result) :
                          result[i] = all[Len(all) - Len(result) + i]]_vars

====
